---------------------------- MODULE Spec2Model ----------------------------
(***************************************************************************)
(* A model of the tabular crate: the selection algebra of the Tabular      *)
(* trait (src/tabular/content.rs), the Address/Range reference types       *)
(* (src/tabular/reference.rs), the column naming (src/tabular/utils.rs)    *)
(* and the Table widget's event handler (src/tabular.rs, update.rs).       *)
(*                                                                         *)
(* Number representations                                                  *)
(*  - usize: a value v is kept in two's complement form, v itself when     *)
(*    v < 2^63 and v - 2^64 otherwise, so that the values an `as i16` /    *)
(*    `as usize` round trip produces (2^64 - k, k <= 32768) are the        *)
(*    integers -k.  Comparisons are the unsigned ones (ULe, ULt).          *)
(*  - i16: the integers -32768..32767.                                     *)
(***************************************************************************)
EXTENDS Integers, Sequences, FiniteSets, TLC

VARIABLES
    \* host store (Content, src/tabular/content/list.rs)
    column_count, row_count, selection, cells, col_widths, row_heights, is_dirty,
    \* history of the last Tabular call, for stating the claims
    op,
    \* column naming: the index, its name, the parse result, the position
    \* in format-then-parse, and whether the build checks integer overflow
    col_index, col_name, parsed, pc, overflow_checks,
    \* the Table widget: its spacing, its State, whether its layout is valid,
    \* and the number of resize drags handled
    spacing, state, layout_valid, drags,
    \* the host's queue of published messages
    messages,
    \* the last Table::update: whether the table had on_action, and the click
    handled,
    \* whether the left mouse button is held down
    button_down,
    \* a Range of the host and the last method called on it
    rng, rng_op,
    \* the last call on the host's Content store, and the store before it
    store_op,
    \* the last call on the Region: for find_cell the points and the cells
    \* found, for the other methods their arguments and the Region before
    find_op,
    \* the last call of Binding::from_key_press: the key press and the binding
    key_op

selVars == <<column_count, row_count, selection, op>>
nameVars == <<col_index, col_name, parsed, pc, overflow_checks>>
rangeVars == <<rng, rng_op>>
widgetVars == <<cells, col_widths, row_heights, is_dirty, spacing, state, layout_valid,
               drags, messages, handled, button_down>>
vars == <<column_count, row_count, selection, op,
          col_index, col_name, parsed, pc, overflow_checks,
          cells, col_widths, row_heights, is_dirty, spacing, state, layout_valid,
          drags, messages, handled, button_down, rng, rng_op, store_op, find_op,
          key_op>>

-----------------------------------------------------------------------------
(* Bounds of the model *)

\* the small table sizes are 0, 1 and MaxDim
MaxDim == 3
\* the large table size: one more than i16::MAX + 1
BigDim == 32769
\* ranges the host selects have the coordinates 0, 1 and MaxCoord
MaxCoord == 3
\* in a large table MoveSelection/ExpandSelection are followed only within
\* Window cells of the table's edges
Window == 2
\* a store gets at most MaxInserts inserts, at the coordinates 0 and
\* MaxInsertCoord
MaxInserts == 2
MaxInsertCoord == 2
\* the tables find_cell is called on have up to MaxRegionLen columns and
\* MaxRegionLen - 1 rows
MaxRegionLen == 3
\* resize drags (CursorMoved while a divider is held) handled in a run
MaxDrags == 1
\* the host performs a ResizeDivider while the sizes add up to at most MaxTotalSize
MaxTotalSize == 300
\* column indices named and parsed back: 0..MaxColumnIndex ("A".."ZZZ")
MaxColumnIndex == 18277
\* from_column_name is given every string of at most MaxNameLen of the
\* characters ParseChars, and the strings of up to MaxLetters times "Z"
MaxNameLen == 2
MaxLetters == 8

-----------------------------------------------------------------------------
(* usize and i16 arithmetic *)

I16Min == -32768
I16Max == 32767

ULe(a, b) == IF (a >= 0) = (b >= 0) THEN a <= b ELSE a >= 0
ULt(a, b) == ULe(a, b) /\ a # b
UMin(a, b) == IF ULe(a, b) THEN a ELSE b
UMax(a, b) == IF ULe(a, b) THEN b ELSE a
\* usize::saturating_add(1), usize::saturating_sub(1)
USatAdd1(a) == IF a = -1 THEN -1 ELSE a + 1
USatSub1(a) == IF a = 0 THEN 0 ELSE a - 1
\* a % b for a <= b (the only case move_selection produces), b # 0
UMod(a, b) == IF ULt(a, b) THEN a ELSE a - b
\* `v as i16`: the low 16 bits, read as a signed number
AsI16(v) == ((v + 32768) % 65536) - 32768
\* i16::saturating_add
I16SatAdd(a, d) ==
    IF a + d > I16Max THEN I16Max ELSE IF a + d < I16Min THEN I16Min ELSE a + d
I16MaxOf(a, b) == IF a >= b THEN a ELSE b
I16MinOf(a, b) == IF a <= b THEN a ELSE b
\* `v as usize` of an i16: sign extension, the identity in this representation
I16AsUsize(v) == v

-----------------------------------------------------------------------------
(* Address and Range (src/tabular/reference.rs) *)

Address(x, y) == [x |-> x, y |-> y]
None == <<>>
Some(v) == <<v>>
\* Range::new
Range(start, end) == [start |-> start, end |-> end]
\* Option::unwrap_or
UnwrapOr(o, dflt) == IF o = None THEN dflt ELSE o[1]
\* Range::default(): Address::default() and None
DefaultRange == Range(Address(0, 0), None)
\* Reference::as_range
as_range(cell) == Range(cell, None)

\* ReferenceRange::contains: start and end are used as they are
contains(r, other) ==
    LET start == r.start
        end == UnwrapOr(r.end, start)
    IN  /\ ULe(start.x, other.x) /\ ULe(other.x, end.x)
        /\ ULe(start.y, other.y) /\ ULe(other.y, end.y)

\* a normalize that orders the columns and leaves the rows as they are
normalize_columns(r) ==
    LET start == r.start
        end == UnwrapOr(r.end, start)
        sx == IF ULt(end.x, start.x) THEN end.x ELSE start.x
        ex == IF ULt(end.x, start.x) THEN start.x ELSE end.x
    IN  Range(Address(sx, start.y), Some(Address(ex, end.y)))

\* Range::normalize
normalize(r) ==
    LET start == r.start
        end == UnwrapOr(r.end, start)
        sx == IF ULt(end.x, start.x) THEN end.x ELSE start.x
        ex == IF ULt(end.x, start.x) THEN start.x ELSE end.x
        sy == IF ULt(end.y, start.y) THEN end.y ELSE start.y
        ey == IF ULt(end.y, start.y) THEN start.y ELSE end.y
    IN  Range(Address(sx, sy), Some(Address(ex, ey)))

\* a..=b
RangeInclusive(a, b) == [i \in 1..(b - a + 1) |-> a + i - 1]
\* flat_map(f) over the sequence xs, f(x) being the row ys mapped with x
RECURSIVE FlatMap(_, _)
FlatMap(xs, ys) ==
    IF Len(xs) = 0 THEN <<>>
    ELSE [j \in 1..Len(ys) |-> Address(xs[1], ys[j])] \o FlatMap(Tail(xs), ys)

\* Range::iter: the References it yields, in order
iter(r) ==
    LET start == r.start
        end == UnwrapOr(r.end, start)
        x_range == IF ULe(start.x, end.x) THEN RangeInclusive(start.x, end.x)
                   ELSE RangeInclusive(end.x, start.x)
        y_range == IF ULe(start.y, end.y) THEN RangeInclusive(start.y, end.y)
                   ELSE RangeInclusive(end.y, start.y)
    IN  FlatMap(x_range, y_range)

-----------------------------------------------------------------------------
(* Motion (src/tabular/update.rs) *)

Motions == {"Left", "Right", "Up", "Down", "Home", "End",
            "Forward", "Back", "DocumentStart", "DocumentEnd"}

\* Motion::widen
widen(m) == CASE m = "Home" -> "DocumentStart"
              [] m = "End" -> "DocumentEnd"
              [] OTHER -> m

-----------------------------------------------------------------------------
(* Tabular::move_selection and Tabular::expand_selection *)

\* usize::saturating_sub(1) of a count
MaxIndex(count) == USatSub1(count)

\* a move_selection that keeps Forward and Back on a single-cell Range
TabMotionNoDegrade(sel, motion) == motion

\* the match at content.rs:124-140
TabMotion(sel, motion) ==
    CASE motion = "Forward" -> IF sel.end = None THEN "Right" ELSE "Forward"
      [] motion = "Back" -> IF sel.end = None THEN "Left" ELSE "Back"
      [] OTHER -> motion

\* a Forward that does not wrap from the rectangle's last row to its first
ForwardCellNoWrap(start, first, last, max) ==
    LET num_cols == last.x - first.x + 1
        next_col == UMod(start.x - first.x + 1, num_cols) + first.x
        next_row == IF next_col = first.x THEN USatAdd1(start.y) ELSE start.y
    IN  Address(UMin(next_col, max.x), UMin(next_row, max.y))

\* Motion::Forward, content.rs:143-157 (start, first, last, max: col = x, row = y)
ForwardCell(start, first, last, max) ==
    LET num_cols == last.x - first.x + 1
        next_col == UMod(start.x - first.x + 1, num_cols) + first.x
        next_row == IF next_col = first.x THEN USatAdd1(start.y) ELSE start.y
        wrapped_row == IF ULt(last.y, next_row) THEN first.y ELSE next_row
    IN  Address(UMin(next_col, max.x), UMin(wrapped_row, max.y))

\* Motion::Back, content.rs:158-177
BackCell(start, first, last, max) ==
    LET prev_col == IF start.x = first.x THEN last.x ELSE USatSub1(start.x)
        prev_row == IF prev_col = last.x /\ start.y = first.y
                    THEN last.y
                    ELSE IF prev_col = last.x THEN USatSub1(start.y) ELSE start.y
        wrapped_row == IF ULt(prev_row, first.y) THEN last.y ELSE prev_row
    IN  Address(UMin(prev_col, max.x), UMin(wrapped_row, max.y))

\* Motion::Up, content.rs:178
UpCell(start, max) == Address(UMin(start.x, max.x), USatSub1(start.y))

\* Motion::Down, content.rs:179-182
DownCell(start, max) == Address(UMin(start.x, max.x), UMin(USatAdd1(start.y), max.y))

\* Motion::Right, content.rs:183-186
RightCell(start, max) == Address(UMin(USatAdd1(start.x), max.x), UMin(start.y, max.y))

\* Motion::Left, content.rs:187
LeftCell(start, max) == Address(USatSub1(start.x), UMin(start.y, max.y))

\* Motion::Home, content.rs:188
HomeCell(start, first, max) == Address(UMin(first.x, max.x), UMin(start.y, max.y))

\* Motion::End, content.rs:189
EndCell(start, last, max) == Address(UMin(last.x, max.x), UMin(start.y, max.y))

\* the new active cell, content.rs:108-192
MoveCell(sel, motion0, cols, rows) ==
    LET start == sel.start
        end == UnwrapOr(sel.end, sel.start)
        first == Address(UMin(start.x, end.x), UMin(start.y, end.y))
        last == Address(UMax(start.x, end.x), UMax(start.y, end.y))
        max == Address(MaxIndex(cols), MaxIndex(rows))
        motion == TabMotion(sel, motion0)
    IN  CASE motion = "Forward" -> ForwardCell(start, first, last, max)
          [] motion = "Back" -> BackCell(start, first, last, max)
          [] motion = "Up" -> UpCell(start, max)
          [] motion = "Down" -> DownCell(start, max)
          [] motion = "Right" -> RightCell(start, max)
          [] motion = "Left" -> LeftCell(start, max)
          [] motion = "Home" -> HomeCell(start, first, max)
          [] motion = "End" -> EndCell(start, last, max)
          [] motion = "DocumentStart" -> Address(0, 0)
          [] motion = "DocumentEnd" -> max

\* the selection after move_selection(motion): select_range(R::new(new_cell, None))
move_selection(sel, motion, cols, rows) ==
    Range(MoveCell(sel, motion, cols, rows), None)

\* the match at content.rs:200-206
ExpandDelta(motion) ==
    CASE motion = "Left" -> <<-1, 0>>
      [] motion = "Right" -> <<1, 0>>
      [] motion = "Up" -> <<0, -1>>
      [] motion = "Down" -> <<0, 1>>
      [] OTHER -> <<0, 0>>

\* content.rs:216-221: ((end as i16).saturating_add(add)).max(0).min(max as i16) as usize
ExpandCoord(endc, add, max) ==
    I16AsUsize(I16MinOf(I16MaxOf(I16SatAdd(AsI16(endc), add), 0), AsI16(max)))

\* the selection after expand_selection(motion)
expand_selection(sel, motion, cols, rows) ==
    LET d == ExpandDelta(motion)
        max_col == MaxIndex(cols)
        max_row == MaxIndex(rows)
        start == sel.start
        end == UnwrapOr(sel.end, start)
        new_y == ExpandCoord(end.y, d[2], max_row)
        new_x == ExpandCoord(end.x, d[1], max_col)
    IN  Range(start, Some(Address(new_x, new_y)))

\* Content::select_all (list.rs:192-196)
select_all(cols, rows) == Range(Address(0, 0), Some(Address(cols, rows)))

-----------------------------------------------------------------------------
(* The selection algebra as a state machine: a host calling the Tabular    *)
(* selection methods on a store of a fixed size.                           *)

DimSet == {0, 1, MaxDim, BigDim}
\* a store has no columns and no rows, or at least one of each
Dims == {<<0, 0>>} \cup {d \in (DimSet \ {0}) \X (DimSet \ {0}) :
                            d[1] = MaxDim \/ d[2] = MaxDim \/ d[1] = d[2]}

\* the ranges a host selects: inside the small tables (0, 1) and outside
\* them (MaxCoord)
Coords == {0, 1, MaxCoord}
SelectInputs ==
    {Range(Address(sx, sy), e) :
        sx \in Coords, sy \in Coords,
        e \in {None} \cup {Some(Address(ex, ey)) : ex \in Coords, ey \in Coords}}

\* the coordinates followed: anything up to MaxCoord + Window, the last
\* Window indices of the table, and the values past 2^63
Tracked(c, count) ==
    ~(c >= 0 /\ c > MaxCoord + Window /\ c < count - 1 - Window)
TrackedRange(r) ==
    LET e == UnwrapOr(r.end, r.start)
    IN  /\ Tracked(r.start.x, column_count) /\ Tracked(r.start.y, row_count)
        /\ Tracked(e.x, column_count) /\ Tracked(e.y, row_count)

NoOp == [name |-> "init", motion |-> "None", before |-> DefaultRange]

SelIdle == column_count = 0 /\ row_count = 0 /\ selection = DefaultRange /\ op = NoOp
NameIdle ==
    /\ col_index = 0 /\ col_name = <<>> /\ parsed = [ok |-> FALSE, v |-> 0, err |-> "none"]
    /\ pc = "idle" /\ overflow_checks = FALSE

\* no method has been called on the Range
NoRangeOp ==
    [name |-> "init", before |-> DefaultRange, cell |-> Address(0, 0),
     yielded |-> <<>>, result |-> FALSE]
RangeIdle == rng = DefaultRange /\ rng_op = NoRangeOp

\* Content::from_range, and Content::default, which is from_range of the
\* default Range: a store without columns
from_range(r) ==
    [cells |-> <<>>, selection |-> DefaultRange, col_widths |-> <<>>,
     row_heights |-> <<>>, column_count |-> 0, row_count |-> 0, is_dirty |-> TRUE]
\* nothing has been called on the store
NoStoreOp ==
    [name |-> "init", before |-> from_range(DefaultRange), cell |-> Address(0, 0),
     axis |-> "Column", index |-> 0, size |-> [n |-> 0, d |-> 1], inserts |-> 0]
StoreIdle == store_op = NoStoreOp

\* find_cell has not been called
NoFindOp ==
    [name |-> "init",
     p1 |-> [x |-> [n |-> 0, d |-> 1], y |-> [n |-> 0, d |-> 1]],
     p2 |-> [x |-> [n |-> 0, d |-> 1], y |-> [n |-> 0, d |-> 1]],
     r1 |-> Address(0, 0), r2 |-> Address(0, 0)]
FindIdle == find_op = NoFindOp

\* from_key_press has not been called
NoKeyOp ==
    [name |-> "init",
     key_press |-> [key |-> "None",
                    modifiers |-> [shift |-> FALSE, control |-> FALSE,
                                   alt |-> FALSE, logo |-> FALSE],
                    macos |-> FALSE, status |-> "Disabled"],
     binding |-> <<>>]
KeyIdle == key_op = NoKeyOp

\* the widget is not part of the specifications of the selection algebra
\* and of the column names
WidgetIdle ==
    /\ cells = <<>> /\ col_widths = <<>> /\ row_heights = <<>> /\ is_dirty = TRUE
    /\ spacing = None /\ state = None /\ layout_valid = FALSE /\ drags = 0
    /\ messages = <<>> /\ handled = None /\ button_down = FALSE

InitSel ==
    /\ \E d \in Dims : column_count = d[1] /\ row_count = d[2]
    /\ selection = DefaultRange
    /\ op = NoOp
    /\ NameIdle
    /\ WidgetIdle
    /\ RangeIdle
    /\ StoreIdle
    /\ FindIdle
    /\ KeyIdle

\* perform(Action::MoveSelection(motion))
MoveSelection(motion) ==
    /\ TrackedRange(move_selection(selection, motion, column_count, row_count))
    /\ selection' = move_selection(selection, motion, column_count, row_count)
    /\ op' = [name |-> "move", motion |-> motion, before |-> selection]
    /\ UNCHANGED <<column_count, row_count>>
    /\ UNCHANGED <<nameVars, widgetVars, rangeVars, store_op, find_op, key_op>>

\* perform(Action::ExpandSelection(motion))
ExpandSelection(motion) ==
    /\ TrackedRange(expand_selection(selection, motion, column_count, row_count))
    /\ selection' = expand_selection(selection, motion, column_count, row_count)
    /\ op' = [name |-> "expand", motion |-> motion, before |-> selection]
    /\ UNCHANGED <<column_count, row_count>>
    /\ UNCHANGED <<nameVars, widgetVars, rangeVars, store_op, find_op, key_op>>

\* perform(Action::Select(range)): select_range
SelectRange(r) ==
    /\ selection' = r
    /\ op' = [name |-> "select", motion |-> "None", before |-> DefaultRange]
    /\ UNCHANGED <<column_count, row_count>>
    /\ UNCHANGED <<nameVars, widgetVars, rangeVars, store_op, find_op, key_op>>

\* perform(Action::SelectAll)
SelectAll ==
    /\ selection' = select_all(column_count, row_count)
    /\ op' = [name |-> "select_all", motion |-> "None", before |-> DefaultRange]
    /\ UNCHANGED <<column_count, row_count>>
    /\ UNCHANGED <<nameVars, widgetVars, rangeVars, store_op, find_op, key_op>>

NextSel ==
    \/ \E m \in Motions : MoveSelection(m)
    \/ \E m \in Motions : ExpandSelection(m)
    \/ \E r \in SelectInputs : SelectRange(r)
    \/ SelectAll

SpecSel == InitSel /\ [][NextSel]_vars

-----------------------------------------------------------------------------
(* The methods of a Range: a host holding any Range calls normalize, iter   *)
(* and contains on it.                                                      *)

\* the References asked for: the cells at the coordinates of the ranges
RangeCells == {Address(x, y) : x \in Coords, y \in Coords}

InitRange ==
    /\ rng \in SelectInputs
    /\ rng_op = NoRangeOp
    /\ SelIdle
    /\ NameIdle
    /\ WidgetIdle
    /\ StoreIdle
    /\ FindIdle
    /\ KeyIdle

\* rng = rng.normalize()
Normalize ==
    /\ rng' = normalize(rng)
    /\ rng_op' = [NoRangeOp EXCEPT !.name = "normalize", !.before = rng]
    /\ UNCHANGED <<selVars, nameVars, widgetVars, store_op, find_op, key_op>>

\* rng.iter().collect()
Iterate ==
    /\ rng_op' = [NoRangeOp EXCEPT !.name = "iter", !.before = rng,
                                     !.yielded = iter(rng)]
    /\ UNCHANGED <<rng, selVars, nameVars, widgetVars, store_op, find_op, key_op>>

\* rng.contains(&cell)
Contains(cell) ==
    /\ rng_op' = [NoRangeOp EXCEPT !.name = "contains", !.before = rng,
                                     !.cell = cell, !.result = contains(rng, cell)]
    /\ UNCHANGED <<rng, selVars, nameVars, widgetVars, store_op, find_op, key_op>>

NextRange ==
    \/ Normalize
    \/ Iterate
    \/ \E cell \in RangeCells : Contains(cell)

SpecRange == InitRange /\ [][NextRange]_vars

-----------------------------------------------------------------------------
(* Column names (src/tabular/utils.rs).  A name is the sequence of its     *)
(* characters' code points.  A u32 is kept in two's complement form: v     *)
(* itself below 2^31 and v - 2^32 from there on.                           *)

CharA == 65
CharLowerA == 97
CharLowerZ == 122
\* u32::MAX / 26, the largest u32 that checked_mul(26) accepts
U32MaxDiv26 == 165191049
\* i32::MAX / 26, the largest u32 whose product with 26 is below 2^31
I32MaxDiv26 == 82595524

Reverse(q) == [i \in 1..Len(q) |-> q[Len(q) + 1 - i]]

\* utils.rs:36-37: the letter pushed for n
ColumnLetter(n) == CharA + (n % 26)
\* a plain base-26 naming: the loop without its n -= 1
ColumnRestNoDec(n) == n \div 26

\* utils.rs:38-43: n = n / 26, and n -= 1 when the loop goes on
ColumnRest(n) == (n \div 26) - 1

\* the characters in the order the loop pushes them
RECURSIVE ColumnLetters(_)
ColumnLetters(n) ==
    IF n \div 26 = 0
    THEN <<ColumnLetter(n)>>
    ELSE <<ColumnLetter(n)>> \o ColumnLetters(ColumnRest(n))

\* to_column_name: name.chars().rev().collect()
to_column_name(n) == Reverse(ColumnLetters(n))

Ok(v) == [ok |-> TRUE, v |-> v, err |-> "none"]
Err(e) == [ok |-> FALSE, v |-> 0, err |-> e]
IsU32Lt(a, b) == IF (a >= 0) = (b >= 0) THEN a < b ELSE a >= 0

\* utils.rs:53-57: ASCII lower case letters are made upper case
ToUpper(c) == IF c >= CharLowerA /\ c <= CharLowerZ THEN c - (CharLowerA - CharA) ELSE c

\* u32::checked_mul(26): None on overflow
CheckedMul26(column) ==
    IF column < 0 \/ column > U32MaxDiv26 THEN None
    ELSE IF column <= I32MaxDiv26 THEN Some(column * 26)
    ELSE Some(26 * (column - U32MaxDiv26) - 22)

\* u32::checked_add: None on overflow (a + d, both u32)
CheckedAdd(a, d) ==
    IF a >= 0 /\ d >= 0
    THEN (IF a > 2147483647 - d
          THEN Some((a - 1073741824) + (d - 1073741824) - 2147483647 - 1)
          ELSE Some(a + d))
    ELSE IF a < 0 /\ d < 0 THEN None
    ELSE IF a + d >= 0 THEN None ELSE Some(a + d)

\* utils.rs:62: (c as u32) - ('A' as u32) + 1.  With overflow checks the
\* subtraction panics below 'A'; without them it wraps.
LetterValue(c, checks) ==
    IF c < CharA /\ checks THEN [panic |-> TRUE, v |-> 0]
    ELSE [panic |-> FALSE, v |-> c - CharA + 1]

\* the loop of from_column_name from character i on, column parsed so far
RECURSIVE ParseFrom(_, _, _, _)
ParseFrom(s, i, column, checks) ==
    IF i > Len(s)
    THEN (IF column = 0 THEN Err("invalid") ELSE Ok(column - 1))
    ELSE LET c == ToUpper(s[i])
             m == CheckedMul26(column)
             d == LetterValue(c, checks)
         IN  IF m = None THEN Err("overflow")
             ELSE IF d.panic THEN Err("panic")
             ELSE LET a == CheckedAdd(m[1], d.v)
                  IN  IF a = None THEN Err("overflow")
                      ELSE ParseFrom(s, i + 1, a[1], checks)

\* from_column_name
from_column_name(s, checks) == ParseFrom(s, 1, 0, checks)

(* Naming an index and parsing the name back *)

InitName ==
    /\ col_index \in 0..MaxColumnIndex
    /\ overflow_checks \in BOOLEAN
    /\ col_name = <<>>
    /\ parsed = Err("none")
    /\ pc = "start"
    /\ SelIdle
    /\ WidgetIdle
    /\ RangeIdle
    /\ StoreIdle
    /\ FindIdle
    /\ KeyIdle

\* let name = to_column_name(n)
FormatName ==
    /\ pc = "start"
    /\ col_name' = to_column_name(col_index)
    /\ pc' = "named"
    /\ UNCHANGED <<col_index, parsed, overflow_checks>>
    /\ UNCHANGED <<selVars, widgetVars, rangeVars, store_op, find_op, key_op>>

\* from_column_name(&name)
ParseName ==
    /\ pc = "named"
    /\ parsed' = from_column_name(col_name, overflow_checks)
    /\ pc' = "parsed"
    /\ UNCHANGED <<col_index, col_name, overflow_checks>>
    /\ UNCHANGED <<selVars, widgetVars, rangeVars, store_op, find_op, key_op>>

NextName == FormatName \/ ParseName

SpecName == InitName /\ [][NextName]_vars

(* Parsing any string *)

\* the characters of the inputs: '1', '@', 'A', 'Z', '[', 'a', 'z', '{'
ParseChars == {49, 64, 65, 90, 91, 97, 122, 123}
\* char::is_ascii_alphabetic
IsAsciiLetter(c) == (c >= 65 /\ c <= 90) \/ (c >= 97 /\ c <= 122)
RECURSIVE StringsUpTo(_)
StringsUpTo(n) ==
    IF n = 0 THEN {<<>>}
    ELSE StringsUpTo(n - 1) \cup
            {Append(q, c) : q \in {r \in StringsUpTo(n - 1) : Len(r) = n - 1}, c \in ParseChars}
ParseInputs == StringsUpTo(MaxNameLen) \cup {[i \in 1..n |-> 90] : n \in 1..MaxLetters}

InitParse ==
    /\ col_name \in ParseInputs
    /\ overflow_checks \in BOOLEAN
    /\ col_index = 0
    /\ parsed = Err("none")
    /\ pc = "input"
    /\ SelIdle
    /\ WidgetIdle
    /\ RangeIdle
    /\ StoreIdle
    /\ FindIdle
    /\ KeyIdle

\* from_column_name(s) for a string s of the host
ParseInput ==
    /\ pc = "input"
    /\ parsed' = from_column_name(col_name, overflow_checks)
    /\ pc' = "parsed_input"
    /\ UNCHANGED <<col_index, col_name, overflow_checks>>
    /\ UNCHANGED <<selVars, widgetVars, rangeVars, store_op, find_op, key_op>>

NextParse == ParseInput

SpecParse == InitParse /\ [][NextParse]_vars

-----------------------------------------------------------------------------
(* f32.  A value is an exact fraction n/d in lowest terms with d > 0, or    *)
(* +inf (1/0), -inf (-1/0) or NaN (0/0).  Rounding and the sign of zero     *)
(* are not modelled.                                                        *)

RECURSIVE Gcd(_, _)
Gcd(a, b) == IF b = 0 THEN a ELSE Gcd(b, a % b)
Abs(a) == IF a < 0 THEN -a ELSE a
Sgn(a) == IF a > 0 THEN 1 ELSE IF a < 0 THEN -1 ELSE 0
F32(n, d) ==
    IF d = 0 THEN [n |-> Sgn(n), d |-> 0]
    ELSE LET g == Gcd(Abs(n), d) IN [n |-> n \div g, d |-> d \div g]
Fl(i) == [n |-> i, d |-> 1]
NaN == [n |-> 0, d |-> 0]
Infinity == [n |-> 1, d |-> 0]
IsNaN(a) == a.d = 0 /\ a.n = 0
\* the denominators' common factor is taken out before multiplying
FAdd(a, b) ==
    IF a.d = 0 /\ b.d = 0 THEN (IF a.n = b.n THEN a ELSE NaN)
    ELSE IF a.d = 0 THEN a
    ELSE IF b.d = 0 THEN b
    ELSE LET g == Gcd(a.d, b.d)
         IN  F32(a.n * (b.d \div g) + b.n * (a.d \div g), (a.d \div g) * b.d)
FNeg(a) == [n |-> -a.n, d |-> a.d]
FSub(a, b) == FAdd(a, FNeg(b))
FMul(a, b) ==
    IF a.d = 0 \/ b.d = 0 THEN F32(a.n * b.n, 0)
    ELSE LET g == Gcd(Abs(a.n), b.d)
             h == Gcd(Abs(b.n), a.d)
         IN  F32((a.n \div g) * (b.n \div h), (a.d \div h) * (b.d \div g))
\* a / b = a * (1 / b); 1 / 0 is +inf
FInv(b) == [n |-> IF b.n < 0 THEN -b.d ELSE b.d, d |-> Abs(b.n)]
FDiv(a, b) == FMul(a, IF b.d = 0 /\ b.n # 0 THEN Fl(0) ELSE FInv(b))
FLt(a, b) ==
    /\ ~IsNaN(a) /\ ~IsNaN(b)
    /\ IF a.d = 0 \/ b.d = 0 THEN a.n * b.d < b.n * a.d \/ (a.d = b.d /\ a.n < b.n)
       ELSE LET g == Gcd(a.d, b.d) IN a.n * (b.d \div g) < b.n * (a.d \div g)
FLe(a, b) == ~IsNaN(a) /\ ~IsNaN(b) /\ ~FLt(b, a)
FAbs(a) == [n |-> Abs(a.n), d |-> a.d]
\* f32::max: the other operand when one is NaN
FMax(a, b) == IF IsNaN(a) THEN b ELSE IF IsNaN(b) THEN a ELSE IF FLt(a, b) THEN b ELSE a
\* f32::clamp: NaN stays NaN
FClamp(a, lo, hi) == IF FLt(a, lo) THEN lo ELSE IF FLt(hi, a) THEN hi ELSE a
\* iter().sum(): a left fold from 0.0
RECURSIVE SumF(_)
SumF(s) == IF Len(s) = 0 THEN Fl(0) ELSE FAdd(SumF(SubSeq(s, 1, Len(s) - 1)), s[Len(s)])
\* f32::partial_cmp
partial_cmp(a, b) ==
    IF IsNaN(a) \/ IsNaN(b) THEN None
    ELSE IF FLt(a, b) THEN Some("Less")
    ELSE IF FLt(b, a) THEN Some("Greater") ELSE Some("Equal")

Size(w, h) == [width |-> w, height |-> h]
Point(x, y) == [x |-> x, y |-> y]

-----------------------------------------------------------------------------
(* Region (src/tabular.rs): the scaled geometry.  Indices are 0-based as   *)
(* in the source; element i of a Vec is element i + 1 of the sequence.      *)

RESIZE_AREA == 4

\* Region::new
RegionNew(columns, rows, sp, rows_n, columns_n) ==
    [row_count |-> rows_n,
     column_count |-> columns_n,
     raw_columns |-> [i \in 1..Len(columns) |-> FAdd(columns[i], sp.width)],
     raw_rows |-> [i \in 1..Len(rows) |-> FAdd(rows[i], sp.height)],
     scaled_columns |-> [i \in 1..columns_n |-> Fl(0)],
     scaled_rows |-> [i \in 1..rows_n |-> Fl(0)],
     cumulative_x |-> [i \in 1..columns_n |-> Fl(0)],
     cumulative_y |-> [i \in 1..rows_n |-> Fl(0)],
     scale_factor_x |-> Fl(1),
     scale_factor_y |-> Fl(1),
     spacing |-> sp]

\* a running sum that starts from the boundaries of the last layout
CumulativeAdded(cumulative, scaled) ==
    [i \in 1..Len(cumulative) |->
        IF i <= Len(scaled) THEN FAdd(cumulative[i], SumF(SubSeq(scaled, 1, i)))
        ELSE cumulative[i]]

\* the zip loops of scale_to_bounds: *scaled = (raw / total) * extent
Scaled(scaled, raw, total, extent) ==
    [i \in 1..Len(scaled) |->
        IF i <= Len(raw) THEN FMul(FDiv(raw[i], total), extent) ELSE scaled[i]]
\* the running sums of scale_to_bounds
Cumulative(cumulative, scaled) ==
    [i \in 1..Len(cumulative) |->
        IF i <= Len(scaled) THEN SumF(SubSeq(scaled, 1, i)) ELSE cumulative[i]]

\* Region::scale_to_bounds
scale_to_bounds(region, bounds, sp) ==
    LET total_raw_width == SumF(region.raw_columns)
        total_raw_height == SumF(region.raw_rows)
        columns == Scaled(region.scaled_columns, region.raw_columns,
                          total_raw_width, bounds.width)
        rows == Scaled(region.scaled_rows, region.raw_rows,
                       total_raw_height, bounds.height)
    IN  [region EXCEPT
            !.spacing = sp,
            !.scaled_columns = columns,
            !.scaled_rows = rows,
            !.cumulative_x = Cumulative(region.cumulative_x, columns),
            !.cumulative_y = Cumulative(region.cumulative_y, rows),
            !.scale_factor_x = FDiv(bounds.width, total_raw_width),
            !.scale_factor_y = FDiv(bounds.height, total_raw_height)]

\* slice::binary_search_by with partial_cmp(..).unwrap_or(Equal): Ok(i) for
\* any element that compares Equal (which one is unspecified), else
\* Err(insertion point).  The slice is sorted: running sums of values >= 0.
binary_search_by(cumulative, pos) ==
    LET equal == {i \in 1..Len(cumulative) :
                    UnwrapOr(partial_cmp(cumulative[i], pos), "Equal") = "Equal"}
        less == {i \in 1..Len(cumulative) :
                    UnwrapOr(partial_cmp(cumulative[i], pos), "Equal") = "Less"}
    IN  IF equal # {} THEN {[ok |-> TRUE, idx |-> i - 1] : i \in equal}
        ELSE {[ok |-> FALSE, idx |-> Cardinality(less)]}

\* a find_index that answers 0 past the last boundary
find_index_first(pos, cumulative) ==
    {IF r.ok THEN r.idx
     ELSE IF r.idx < Len(cumulative) THEN r.idx
     ELSE 0 :
        r \in binary_search_by(cumulative, pos)}

\* find_cell::find_index: the possible results
find_index(pos, cumulative) ==
    {IF r.ok THEN r.idx
     ELSE IF r.idx < Len(cumulative) THEN r.idx
     ELSE IF Len(cumulative) = 0 THEN 0 ELSE Len(cumulative) - 1 :
        r \in binary_search_by(cumulative, pos)}

\* Region::find_cell: the possible (col, row)
find_cell(region, pos) ==
    {Address(col, row) :
        col \in find_index(pos.x, region.cumulative_x),
        row \in find_index(pos.y, region.cumulative_y)}

DividerHit(axis, index, original_size) ==
    [axis |-> axis, index |-> index, original_size |-> original_size]

\* the test of find_nearest's find_map for candidate i
IsNear(i, pos, cumulative, sp, raw_sizes) ==
    /\ i < Len(cumulative)
    /\ i < Len(raw_sizes)
    /\ FLe(FAbs(FSub(pos, FSub(cumulative[i + 1], FDiv(sp, Fl(2))))), Fl(RESIZE_AREA))

\* find_nearest_divider::find_nearest: the possible Option<(usize, f32)>
find_nearest(pos, cumulative, sp, raw_sizes) ==
    {LET idx == r.idx
         candidates ==
            IF idx >= Len(cumulative)
            THEN (IF Len(cumulative) = 0 THEN <<>> ELSE <<Len(cumulative) - 1>>)
            ELSE IF idx = 0 THEN <<0>> ELSE <<idx - 1, idx>>
         near == SelectSeq(candidates, LAMBDA i : IsNear(i, pos, cumulative, sp, raw_sizes))
     IN  IF Len(near) = 0 THEN None
         ELSE Some([index |-> near[1], size |-> FSub(raw_sizes[near[1] + 1], sp)]) :
        r \in binary_search_by(cumulative, pos)}

\* Region::find_nearest_divider: vertical dividers first, then horizontal
find_nearest_divider(region, pos) ==
    {IF c # None THEN Some(DividerHit("Column", c[1].index, c[1].size))
     ELSE IF r # None THEN Some(DividerHit("Row", r[1].index, r[1].size))
     ELSE None :
        c \in find_nearest(pos.x, region.cumulative_x, region.spacing.width,
                           region.raw_columns),
        r \in find_nearest(pos.y, region.cumulative_y, region.spacing.height,
                           region.raw_rows)}

-----------------------------------------------------------------------------
(* State (src/tabular.rs) *)

InteractionNone == [interaction |-> "None"]
InteractionResizeDivider(hit) == [interaction |-> "ResizeDivider", hit |-> hit]

\* State::new
StateNew(col_sizes, row_sizes, sp, rows_n, columns_n) ==
    [last_click |-> None,
     drag_click |-> None,
     interaction |-> InteractionNone,
     is_focused |-> FALSE,
     region |-> RegionNew(col_sizes, row_sizes, sp, rows_n, columns_n)]

\* State::from_data
from_data(data, sp) ==
    StateNew(data.col_widths, data.row_heights, sp, data.row_count, data.column_count)

\* State::focus, State::unfocus
focus(st) == [st EXCEPT !.is_focused = TRUE]
\* an unfocus that keeps the clicks it should forget
unfocus_keeping_clicks(st) == [st EXCEPT !.is_focused = FALSE]
unfocus(st) == [st EXCEPT !.is_focused = FALSE, !.drag_click = None, !.last_click = None]

-----------------------------------------------------------------------------
(* Content (src/tabular/content/list.rs) and Tabular::perform.  The store   *)
(* is the record data: cells is Content::columns, cells[x + 1][y + 1] the   *)
(* cell (x, y); column_count and row_count are its lengths.                 *)

DefaultCell == ""
\* Content::with_range
with_range(range) ==
    LET start == normalize(range).start
        end == UnwrapOr(normalize(range).end, start)
        cols == (IF ULt(end.x, start.x) THEN 0 ELSE end.x - start.x) + 1
        rows == (IF ULt(end.y, start.y) THEN 0 ELSE end.y - start.y) + 1
    IN  [cells |-> [x \in 1..cols |-> [y \in 1..rows |-> DefaultCell]],
         selection |-> DefaultRange,
         col_widths |-> [x \in 1..cols |-> Fl(100)],
         row_heights |-> [y \in 1..rows |-> Fl(20)],
         column_count |-> cols,
         row_count |-> rows,
         is_dirty |-> TRUE]

\* Action and Instruction (src/tabular/action.rs)
ActionSelect(range) == [action |-> "Select", range |-> range]
ActionSelectAll == [action |-> "SelectAll"]
ActionMoveSelection(motion) == [action |-> "MoveSelection", motion |-> motion]
ActionExpandSelection(motion) == [action |-> "ExpandSelection", motion |-> motion]
ActionEdit(edit) == [action |-> "Edit", edit |-> edit]
ActionResizeDivider(axis, index, size) ==
    [action |-> "ResizeDivider", axis |-> axis, index |-> index, size |-> size]
Activate(cell) == [instruction |-> "Activate", cell |-> cell]
Instruction(name) == [instruction |-> name]

\* Range::iter yields the cells between start and end, in either order
InIter(r, cell) ==
    LET s == r.start
        e == UnwrapOr(r.end, s)
    IN  /\ ULe(UMin(s.x, e.x), cell.x) /\ ULe(cell.x, UMax(s.x, e.x))
        /\ ULe(UMin(s.y, e.y), cell.y) /\ ULe(cell.y, UMax(s.y, e.y))

\* a Delete that asks contains which cells are selected
delete_contained(data) ==
    [data EXCEPT !.cells =
        [x \in 1..Len(data.cells) |-> [y \in 1..Len(data.cells[x]) |->
            IF contains(data.selection, Address(x - 1, y - 1))
            THEN DefaultCell ELSE data.cells[x][y]]]]

\* perform(Action::Edit(Edit::Delete)): the selected cells that exist get T::default()
delete_selection(data) ==
    [data EXCEPT !.cells =
        [x \in 1..Len(data.cells) |-> [y \in 1..Len(data.cells[x]) |->
            IF InIter(data.selection, Address(x - 1, y - 1))
            THEN DefaultCell ELSE data.cells[x][y]]]]

\* perform(Action::ResizeDivider(axis, index, size))
resize_divider(data, axis, index, size) ==
    LET clamped == FClamp(size, Fl(0), Infinity)
    IN  IF axis = "Column"
        THEN (IF index < Len(data.col_widths)
              THEN [data EXCEPT !.col_widths[index + 1] = FAdd(@, clamped)] ELSE data)
        ELSE (IF index < Len(data.row_heights)
              THEN [data EXCEPT !.row_heights[index + 1] = FAdd(@, clamped)] ELSE data)

\* Tabular::perform
perform(data, action) ==
    CASE action.action = "Edit" -> delete_selection(data)
      [] action.action = "Select" -> [data EXCEPT !.selection = action.range]
      [] action.action = "SelectAll" ->
            [data EXCEPT !.selection = select_all(data.column_count, data.row_count)]
      [] action.action = "MoveSelection" ->
            [data EXCEPT !.selection =
                move_selection(@, action.motion, data.column_count, data.row_count)]
      [] action.action = "ExpandSelection" ->
            [data EXCEPT !.selection =
                expand_selection(@, action.motion, data.column_count, data.row_count)]
      [] action.action = "ResizeDivider" ->
            resize_divider(data, action.axis, action.index, action.size)
      [] OTHER -> data

\* Vec::resize(n, value) and Vec::resize_with(n, || value)
Resize(v, n, value) == [i \in 1..n |-> IF i <= Len(v) THEN v[i] ELSE value]

\* Content::ensure_uniform_grid
ensure_uniform_grid(data, rows, cols) ==
    LET grow == Len(data.cells) < cols
        columns == IF grow THEN Resize(data.cells, cols, <<>>) ELSE data.cells
    IN  [data EXCEPT
            !.cells = [x \in 1..Len(columns) |-> Resize(columns[x], rows, DefaultCell)],
            !.col_widths = IF grow THEN Resize(@, cols, Fl(100)) ELSE @,
            !.row_heights = Resize(@, rows, Fl(20)),
            !.column_count = Len(columns),
            !.row_count = IF Len(columns) = 0 THEN 0 ELSE rows]

\* Content::insert
insert(data, cell, item) ==
    LET needed_cols == IF cell.x + 1 > data.column_count THEN cell.x + 1
                       ELSE data.column_count
        needed_rows == IF cell.y + 1 > data.row_count THEN cell.y + 1 ELSE data.row_count
    IN  [ensure_uniform_grid(data, needed_rows, needed_cols)
            EXCEPT !.cells[cell.x + 1][cell.y + 1] = item]

\* Content::with_column_widths and Content::with_row_heights
with_column_widths(data, sizes) == [data EXCEPT !.col_widths = sizes]
with_row_heights(data, sizes) == [data EXCEPT !.row_heights = sizes]

-----------------------------------------------------------------------------
(* Events, Update and Binding (src/tabular/update.rs) *)

\* keyboard::Modifiers: the keys held.  What command(), jump() and
\* macos_command() mean depends on the platform the crate is built for.
Modifiers(shift, control, alt, logo) ==
    [shift |-> shift, control |-> control, alt |-> alt, logo |-> logo]
NoModifiers == Modifiers(FALSE, FALSE, FALSE, FALSE)
command(key_press) ==
    IF key_press.macos THEN key_press.modifiers.logo ELSE key_press.modifiers.control
jump(key_press) ==
    IF key_press.macos THEN key_press.modifiers.alt ELSE key_press.modifiers.control
macos_command(key_press) == key_press.macos /\ key_press.modifiers.logo

Event(class, kind, button, key, modifiers, macos) ==
    [class |-> class, kind |-> kind, button |-> button,
     key |-> key, modifiers |-> modifiers, macos |-> macos]
MouseEvent(kind, button) == Event("Mouse", kind, button, "None", NoModifiers, FALSE)
KeyPressed(key, modifiers, macos) ==
    Event("Keyboard", "KeyPressed", "None", key, modifiers, macos)
OtherEvent(class, kind) == Event(class, kind, "None", "None", NoModifiers, FALSE)

NamedKeys == {"F2", "Enter", "Delete", "Backspace", "Escape", "Tab", "ArrowLeft",
              "ArrowRight", "ArrowUp", "ArrowDown", "Home", "End"}

Binding(name, motion) == [binding |-> name, motion |-> motion]
Bindings ==
    {Binding(n, "None") : n \in {"Copy", "Cut", "Paste", "SelectAll", "Enter", "Delete",
                                 "Focus", "Unfocus", "ClickedOutside", "Custom",
                                 "StartEdit"}}
    \cup {Binding(n, m) : n \in {"MoveSelection", "ExpandSelection"}, m \in Motions}

\* fn motion(key)
key_motion(key) ==
    CASE key = "ArrowLeft" -> Some("Left")
      [] key = "ArrowRight" -> Some("Right")
      [] key = "ArrowUp" -> Some("Up")
      [] key = "ArrowDown" -> Some("Down")
      [] key = "Home" -> Some("Home")
      [] key = "End" -> Some("End")
      [] OTHER -> None

\* the motion keys with the motion widened before Left and Right are remapped
motion_binding_widen_first(key_press) ==
    IF key_press.key \notin NamedKeys \/ key_motion(key_press.key) = None THEN None
    ELSE LET m0 == key_motion(key_press.key)[1]
             m1 == IF jump(key_press) THEN widen(m0) ELSE m0
             m2 == IF macos_command(key_press)
                   THEN (IF m1 = "Left" THEN "Home" ELSE IF m1 = "Right" THEN "End" ELSE m1)
                   ELSE m1
         IN  Some(Binding(IF key_press.modifiers.shift
                          THEN "ExpandSelection" ELSE "MoveSelection", m2))

\* the `_` arm of Binding::from_key_press
motion_binding(key_press) ==
    IF key_press.key \notin NamedKeys \/ key_motion(key_press.key) = None THEN None
    ELSE LET m0 == key_motion(key_press.key)[1]
             m1 == IF macos_command(key_press)
                   THEN (IF m0 = "Left" THEN "Home" ELSE IF m0 = "Right" THEN "End" ELSE m0)
                   ELSE m0
             m2 == IF jump(key_press) THEN widen(m1) ELSE m1
         IN  Some(Binding(IF key_press.modifiers.shift
                          THEN "ExpandSelection" ELSE "MoveSelection", m2))

\* the key bindings with Paste whatever Alt is
from_key_press_alt_paste(key_press) ==
    LET key == key_press.key
    IN  IF key_press.status # "Focused" THEN None
        ELSE IF key = "F2" THEN Some(Binding("StartEdit", "None"))
        ELSE IF key = "Enter" THEN Some(Binding("Enter", "None"))
        ELSE IF key \in {"Delete", "Backspace"} THEN Some(Binding("Delete", "None"))
        ELSE IF key = "Escape" THEN Some(Binding("Focus", "None"))
        ELSE IF key = "c" /\ command(key_press) THEN Some(Binding("Copy", "None"))
        ELSE IF key = "x" /\ command(key_press) THEN Some(Binding("Cut", "None"))
        ELSE IF key = "v" /\ command(key_press) THEN Some(Binding("Paste", "None"))
        ELSE IF key = "a" /\ command(key_press) THEN Some(Binding("SelectAll", "None"))
        ELSE motion_binding(key_press)

\* Binding::from_key_press
from_key_press(key_press) ==
    LET key == key_press.key
    IN  IF key_press.status # "Focused" THEN None
        ELSE IF key = "F2" THEN Some(Binding("StartEdit", "None"))
        ELSE IF key = "Enter" THEN Some(Binding("Enter", "None"))
        ELSE IF key \in {"Delete", "Backspace"} THEN Some(Binding("Delete", "None"))
        ELSE IF key = "Escape" THEN Some(Binding("Focus", "None"))
        ELSE IF key = "c" /\ command(key_press) THEN Some(Binding("Copy", "None"))
        ELSE IF key = "x" /\ command(key_press) THEN Some(Binding("Cut", "None"))
        ELSE IF key = "v" /\ command(key_press) /\ ~key_press.modifiers.alt
             THEN Some(Binding("Paste", "None"))
        ELSE IF key = "a" /\ command(key_press) THEN Some(Binding("SelectAll", "None"))
        ELSE motion_binding(key_press)

\* mouse::Cursor::position_in(bounds); a cursor is None (Unavailable) or Some(point)
position_in(cursor, bounds) ==
    IF cursor = None THEN None
    ELSE LET p == cursor[1]
         IN  IF /\ FLe(bounds.x, p.x) /\ FLt(p.x, FAdd(bounds.x, bounds.width))
                /\ FLe(bounds.y, p.y) /\ FLt(p.y, FAdd(bounds.y, bounds.height))
             THEN Some(Point(FSub(p.x, bounds.x), FSub(p.y, bounds.y)))
             ELSE None

\* mouse::click::Kind::next
KindNext(kind) == IF kind = "Single" THEN "Double" ELSE IF kind = "Double" THEN "Triple" ELSE "Double"
\* the square of Point::distance
Distance2(a, b) ==
    FAdd(FMul(FSub(a.x, b.x), FSub(a.x, b.x)), FMul(FSub(a.y, b.y), FSub(a.y, b.y)))
\* mouse::Click::new(position, Button::Left, previous): consecutive when less
\* than 6 px from the previous click and at most 300 ms after it (quick)
ClickNew(position, previous, quick) ==
    [position |-> position,
     kind |-> IF previous # None /\ quick
                 /\ FLt(Distance2(previous[1].position, position), Fl(36))
              THEN KindNext(previous[1].kind) ELSE "Single"]

UpdateClick(click) == [update |-> "Click", click |-> click]
UpdateDrag(position) == [update |-> "Drag", position |-> position]
UpdateRelease == [update |-> "Release"]
UpdateBinding(binding) == [update |-> "Binding", binding |-> binding]

\* Update::from_event.  bound is what the key_binding closure returns.
from_event(event, st, bounds, cursor, key_binding, quick, bound) ==
    IF event.class = "Mouse" /\ event.kind = "ButtonPressed" /\ event.button = "Left"
    THEN (IF position_in(cursor, bounds) # None
          THEN Some(UpdateClick(ClickNew(position_in(cursor, bounds)[1], st.last_click, quick)))
          ELSE IF st.is_focused THEN Some(UpdateBinding(Binding("ClickedOutside", "None")))
          ELSE None)
    ELSE IF event.class = "Mouse" /\ event.kind = "ButtonReleased" /\ event.button = "Left"
    THEN Some(UpdateRelease)
    ELSE IF event.class = "Mouse" /\ event.kind = "CursorMoved"
    THEN (IF st.drag_click = Some("Single") /\ cursor # None
          THEN Some(UpdateDrag(cursor[1])) ELSE None)
    ELSE IF event.class = "Keyboard" /\ event.kind = "KeyPressed"
    THEN LET key_press == [key |-> event.key, modifiers |-> event.modifiers,
                           macos |-> event.macos,
                           status |-> IF st.is_focused THEN "Focused" ELSE "Unfocused"]
             binding == IF key_binding THEN bound ELSE from_key_press(key_press)
         IN  IF binding = None THEN None ELSE Some(UpdateBinding(binding[1]))
    ELSE None

-----------------------------------------------------------------------------
(* Table::update (src/tabular.rs).  A table is the widget's configuration:  *)
(* which callbacks are registered and the passthrough flag.  The handler    *)
(* works on a context: the State, the borrowed data, and what it did with   *)
(* the Shell (messages published, event captured, layout and widgets        *)
(* invalidated) and with its children (event forwarded).                    *)

Context(st, data) ==
    [state |-> st, data |-> data, published |-> <<>>, captured |-> FALSE,
     forwarded |-> FALSE, layout_invalid |-> FALSE, widgets_invalid |-> FALSE,
     update |-> "None", click |-> None, cell |-> None]

\* the closures given to on_action and on_instruction wrap the value in a Message
on_edit(action) == [message |-> "Action", action |-> action]
on_instruction(instruction) == [message |-> "Instruction", instruction |-> instruction]
CustomMessage == [message |-> "Custom"]

\* a handler that applies what it publishes to the data instead of leaving it to the host
publish_applied(ctx, message) ==
    [ctx EXCEPT !.published = Append(@, message),
                !.data = IF message.message = "Action"
                         THEN perform(@, message.action) ELSE @]

\* shell.publish(message): the data is behind a shared reference (data: &'a Data)
publish(ctx, message) == [ctx EXCEPT !.published = Append(@, message)]
capture_event(ctx) == [ctx EXCEPT !.captured = TRUE]
invalidate_layout(ctx) == [ctx EXCEPT !.layout_invalid = TRUE]
invalidate_widgets(ctx) == [ctx EXCEPT !.widgets_invalid = TRUE]
\* the loop that hands the event to every cell's widget
update_children(ctx) == [ctx EXCEPT !.forwarded = TRUE]

\* a table that takes itself for enabled whatever callbacks it has
enabled_always(table) == TRUE

\* self.on_edit.as_ref().is_some()
enabled(table) == table.on_edit

\* Update::RedrawRequested
redraw_requested(ctx, sp) ==
    update_children(
        IF ctx.data.is_dirty
        THEN invalidate_layout([ctx EXCEPT !.data.is_dirty = FALSE,
                                           !.state = from_data(ctx.data, sp)])
        ELSE ctx)

\* Update::Click, Kind::Single
click_single(table, ctx, click) ==
    LET st == [ctx.state EXCEPT !.last_click = Some(click),
                                !.drag_click = Some(click.kind)]
    IN  {IF hit # None
         THEN [ctx EXCEPT !.state =
                focus([st EXCEPT !.interaction = InteractionResizeDivider(hit[1])])]
         ELSE LET selected ==
                    IF ~contains(ctx.data.selection, cell)
                    THEN publish([ctx EXCEPT !.state = focus(st)],
                                 on_edit(ActionSelect(as_range(cell))))
                    ELSE [ctx EXCEPT !.state = st]
              IN  IF table.passthrough THEN update_children(selected) ELSE selected :
            hit \in find_nearest_divider(st.region, click.position),
            cell \in find_cell(st.region, click.position)}

\* a double click that activates before it selects
click_double_activate_first(table, ctx, click) ==
    {LET activated ==
            IF table.on_instruction
            THEN publish(ctx, on_instruction(Activate(cell))) ELSE ctx
         selected ==
            IF ~contains(ctx.data.selection, cell)
            THEN publish(activated, on_edit(ActionSelect(as_range(cell))))
            ELSE activated
     IN  capture_event(update_children([selected EXCEPT !.cell = Some(cell)])) :
        cell \in find_cell(ctx.state.region, click.position)}

\* Update::Click, Kind::Double | Kind::Triple
click_double(table, ctx, click) ==
    {LET selected ==
            IF ~contains(ctx.data.selection, cell)
            THEN publish(ctx, on_edit(ActionSelect(as_range(cell))))
            ELSE ctx
         activated ==
            IF table.on_instruction
            THEN publish(selected, on_instruction(Activate(cell))) ELSE selected
     IN  capture_event(update_children([activated EXCEPT !.cell = Some(cell)])) :
        cell \in find_cell(ctx.state.region, click.position)}

\* the pixel delta of a resize in raw units
raw_delta(axis, start, current, region) ==
    IF axis = "Column"
    THEN FDiv(FSub(current.x, start.x), region.scale_factor_x)
    ELSE FDiv(FSub(current.y, start.y), region.scale_factor_y)

\* a release that forgets the interaction but not the click that is held
release_keeping_drag(ctx, cursor, bounds) ==
    LET st == ctx.state
        current == position_in(cursor, bounds)
    IN  IF st.interaction.interaction = "ResizeDivider"
        THEN LET hit == st.interaction.hit
                 published ==
                    IF st.last_click # None /\ current # None
                    THEN publish(ctx, on_edit(ActionResizeDivider(hit.axis, hit.index,
                            raw_delta(hit.axis, st.last_click[1].position,
                                      current[1], st.region))))
                    ELSE ctx
             IN  capture_event(invalidate_widgets(invalidate_layout(
                    [published EXCEPT !.state.interaction = InteractionNone,
                                      !.state.drag_click = None])))
        ELSE update_children(ctx)

\* a release that publishes the resize and stays in the interaction
release_resizing_on(ctx, cursor, bounds) ==
    LET st == ctx.state
        current == position_in(cursor, bounds)
    IN  IF st.interaction.interaction = "ResizeDivider"
        THEN LET hit == st.interaction.hit
                 published ==
                    IF st.last_click # None /\ current # None
                    THEN publish(ctx, on_edit(ActionResizeDivider(hit.axis, hit.index,
                            raw_delta(hit.axis, st.last_click[1].position,
                                      current[1], st.region))))
                    ELSE ctx
             IN  capture_event(invalidate_widgets(invalidate_layout(
                    [published EXCEPT !.state.drag_click = None])))
        ELSE update_children([ctx EXCEPT !.state.drag_click = None])

\* Update::Release
release(ctx, cursor, bounds) ==
    LET st == ctx.state
        current == position_in(cursor, bounds)
    IN  IF st.interaction.interaction = "ResizeDivider"
        THEN LET hit == st.interaction.hit
                 published ==
                    IF st.last_click # None /\ current # None
                    THEN publish(ctx, on_edit(ActionResizeDivider(hit.axis, hit.index,
                            raw_delta(hit.axis, st.last_click[1].position,
                                      current[1], st.region))))
                    ELSE ctx
             IN  capture_event(invalidate_widgets(invalidate_layout(
                    [published EXCEPT !.state.interaction = InteractionNone,
                                      !.state.drag_click = None])))
        ELSE update_children([ctx EXCEPT !.state.drag_click = None])

\* Update::Drag while Interaction::ResizeDivider(hit)
drag_resize(ctx, hit, start, raw_end, bounds, sp) ==
    LET region == ctx.state.region
        current == Point(FSub(raw_end.x, bounds.x), FSub(raw_end.y, bounds.y))
        size == FMax(FAdd(hit.original_size,
                          raw_delta(hit.axis, start, current, region)), Fl(0))
        resized ==
            IF hit.axis = "Column"
            THEN (IF hit.index < Len(region.raw_columns)
                  THEN [region EXCEPT !.raw_columns[hit.index + 1] = size] ELSE region)
            ELSE (IF hit.index < Len(region.raw_rows)
                  THEN [region EXCEPT !.raw_rows[hit.index + 1] = size] ELSE region)
    IN  capture_event(invalidate_widgets(invalidate_layout(
            [ctx EXCEPT !.state.region =
                scale_to_bounds(resized, Size(bounds.width, bounds.height), sp)])))

\* a drag that publishes the Range also when the host has selected it
drag_select_always(ctx, start, cursor, bounds) ==
    LET end == position_in(cursor, bounds)
    IN  IF end = None THEN {update_children(ctx)}
        ELSE IF end[1] = start THEN {capture_event(ctx)}
        ELSE {LET range == normalize(Range(range_start, Some(range_end)))
              IN  capture_event(invalidate_layout(
                      publish(ctx, on_edit(ActionSelect(range))))) :
                range_start \in find_cell(ctx.state.region, start),
                range_end \in find_cell(ctx.state.region, end[1])}

\* Update::Drag while Interaction::None
drag_select(ctx, start, cursor, bounds) ==
    LET end == position_in(cursor, bounds)
    IN  IF end = None THEN {update_children(ctx)}
        ELSE IF end[1] = start THEN {capture_event(ctx)}
        ELSE {LET range == normalize(Range(range_start, Some(range_end)))
              IN  capture_event(
                    IF range # ctx.data.selection
                    THEN invalidate_layout(publish(ctx, on_edit(ActionSelect(range))))
                    ELSE ctx) :
                range_start \in find_cell(ctx.state.region, start),
                range_end \in find_cell(ctx.state.region, end[1])}

\* Update::Drag
drag(ctx, raw_end, cursor, bounds, sp) ==
    LET st == ctx.state
    IN  IF st.last_click = None THEN {update_children(ctx)}
        ELSE IF st.interaction.interaction = "ResizeDivider"
        THEN {drag_resize(ctx, st.interaction.hit, st.last_click[1].position,
                          raw_end, bounds, sp)}
        ELSE drag_select(ctx, st.last_click[1].position, cursor, bounds)

\* publishes on_instruction(instruction) when on_instruction is registered
instruct(table, ctx, instruction) ==
    IF table.on_instruction THEN publish(ctx, on_instruction(instruction)) ELSE ctx

\* apply_binding; terminate is its return value
apply_binding(table, ctx, binding) ==
    LET name == binding.binding
        focused == ctx.state.is_focused
        done(c, terminate) == [ctx |-> c, terminate |-> terminate]
    IN  CASE name = "Focus" ->
                done(invalidate_layout([ctx EXCEPT !.state =
                    focus([ctx.state EXCEPT !.interaction = InteractionNone])]), FALSE)
          [] name = "ClickedOutside" ->
                done(invalidate_layout([ctx EXCEPT !.state =
                    unfocus([ctx.state EXCEPT !.interaction = InteractionNone])]), TRUE)
          [] name = "Unfocus" ->
                done(invalidate_layout([ctx EXCEPT !.state =
                    unfocus([ctx.state EXCEPT !.interaction = InteractionNone])]), FALSE)
          [] name \in {"Cut", "Copy", "Paste"} ->
                done(IF focused THEN instruct(table, ctx, Instruction(name)) ELSE ctx, FALSE)
          [] name = "Custom" -> done(publish(ctx, CustomMessage), FALSE)
          [] name = "Delete" ->
                done(IF focused THEN publish(ctx, on_edit(ActionEdit("Delete"))) ELSE ctx,
                     FALSE)
          [] name = "StartEdit" ->
                done(instruct(table, ctx, Activate(ctx.data.selection.start)), FALSE)
          [] name = "Enter" ->
                done(IF focused
                     THEN invalidate_widgets(invalidate_layout(
                            instruct(table,
                                [ctx EXCEPT !.state =
                                    focus([ctx.state EXCEPT !.interaction = InteractionNone])],
                                Activate(ctx.data.selection.start))))
                     ELSE ctx, FALSE)
          [] name = "MoveSelection" ->
                done(IF focused
                     THEN publish(ctx, on_edit(ActionMoveSelection(binding.motion)))
                     ELSE ctx, FALSE)
          [] name = "ExpandSelection" ->
                done(IF focused
                     THEN publish(ctx, on_edit(ActionExpandSelection(binding.motion)))
                     ELSE ctx, FALSE)
          [] name = "SelectAll" ->
                done(IF focused THEN publish(ctx, on_edit(ActionSelectAll)) ELSE ctx, FALSE)

\* Update::Binding
on_binding(table, ctx, binding) ==
    LET applied == apply_binding(table, ctx, binding)
    IN  IF applied.terminate THEN applied.ctx ELSE update_children(applied.ctx)

\* the events the enabled table looks at (the match that computes `filtered`)
is_filtered(event) ==
    \/ event.class \in {"Mouse", "Touch", "Keyboard"}
    \/ event.class = "Window" /\ event.kind = "RedrawRequested"

\* the match on the Update
on_update(table, ctx, upd, cursor, bounds, sp) ==
    LET c == [ctx EXCEPT !.update = upd.update]
    IN  CASE upd.update = "RedrawRequested" -> {redraw_requested(c, sp)}
          [] upd.update = "Click" ->
                (IF upd.click.kind = "Single"
                 THEN click_single(table, [c EXCEPT !.click = Some(upd.click)], upd.click)
                 ELSE click_double(table, [c EXCEPT !.click = Some(upd.click)], upd.click))
          [] upd.update = "Release" -> {release(c, cursor, bounds)}
          [] upd.update = "Drag" -> drag(c, upd.position, cursor, bounds, sp)
          [] upd.update = "Binding" -> {on_binding(table, c, upd.binding)}

\* Table::update: the possible outcomes
update(table, sp, data, st, event, cursor, bounds, quick, bound) ==
    LET ctx == Context(st, data)
        upd == from_event(event, st, bounds, cursor, table.key_binding, quick, bound)
    IN  IF ~enabled(table) THEN {update_children(ctx)}
        ELSE IF /\ event.class = "Mouse" /\ event.kind = "ButtonPressed"
                /\ position_in(cursor, bounds) = None
        THEN {[ctx EXCEPT !.state = unfocus([st EXCEPT !.interaction = InteractionNone])]}
        ELSE IF ~is_filtered(event) THEN {update_children(ctx)}
        ELSE IF upd = None THEN {update_children(ctx)}
        ELSE on_update(table, ctx, upd[1], cursor, bounds, sp)

-----------------------------------------------------------------------------
(* The widget in an application: events reach Table::update one at a time,  *)
(* the runtime lays the widget out again when an update invalidated the     *)
(* layout, and the host takes the published messages from its queue and     *)
(* either performs the Action (examples/simple.rs) or leaves it.            *)

\* Content::with_range(range) of the application
TableRange == Range(Address(0, 0), Some(Address(1, 1)))
InitialData == with_range(TableRange)
\* the layout's bounds: Length::Fill in a fixed window
Bounds == [x |-> Fl(20), y |-> Fl(56), width |-> Fl(200), height |-> Fl(40)]
\* with_spacing((s, s))
Spacings == {4}

\* cursor positions relative to the bounds: in cell (0, 0), in cell (1, 1),
\* on the divider after column 0, outside
CursorPoints == {<<50, 10>>, <<150, 30>>, <<98, 10>>, <<-10, -10>>}
Cursors ==
    {None} \cup {Some(Point(FAdd(Bounds.x, Fl(p[1])), FAdd(Bounds.y, Fl(p[2])))) :
                    p \in CursorPoints}

Table(on_edit_set, on_instruction_set, key_binding_set, passthrough) ==
    [on_edit |-> on_edit_set, on_instruction |-> on_instruction_set,
     key_binding |-> key_binding_set, passthrough |-> passthrough]
\* the tables an event is delivered to; a flag that update does not read
\* for the event is left FALSE
PressTables == {Table(TRUE, i, FALSE, p) : i \in BOOLEAN, p \in BOOLEAN}
MouseTables == {Table(TRUE, FALSE, FALSE, FALSE)}
KeyTables(k) == {Table(TRUE, i, k, FALSE) : i \in BOOLEAN}
DisabledTables == {Table(FALSE, i, k, FALSE) : i \in BOOLEAN, k \in BOOLEAN}

Shift == Modifiers(TRUE, FALSE, FALSE, FALSE)
Control == Modifiers(FALSE, TRUE, FALSE, FALSE)
ControlAlt == Modifiers(FALSE, TRUE, TRUE, FALSE)
Alt == Modifiers(FALSE, FALSE, TRUE, FALSE)
Logo == Modifiers(FALSE, FALSE, FALSE, TRUE)
KeyPresses ==
    {KeyPressed(k, NoModifiers, FALSE) :
        k \in {"F2", "Enter", "Delete", "Escape", "Tab", "ArrowLeft", "ArrowDown", "c"}}
    \cup {KeyPressed(k, Control, FALSE) : k \in {"c", "x", "v", "a", "Home"}}
    \cup {KeyPressed(k, Shift, FALSE) : k \in {"ArrowLeft", "ArrowRight", "End"}}
    \cup {KeyPressed("v", ControlAlt, FALSE), KeyPressed("Home", Alt, TRUE)}
    \cup {KeyPressed(k, Logo, TRUE) : k \in {"ArrowLeft", "ArrowRight"}}
\* what the key_binding closure of the host returns: nothing, or a binding
\* that no key has by default
BoundMotions == {"Forward", "Back"}
BindingResults ==
    {None} \cup {Some(b) : b \in {c \in Bindings :
                        \/ c.binding \in {"Unfocus", "ClickedOutside", "Custom"}
                        \/ c.motion \in BoundMotions}}
OtherEvents ==
    {MouseEvent("ButtonReleased", "Right"), MouseEvent("WheelScrolled", "None"),
     OtherEvent("Keyboard", "KeyReleased"), OtherEvent("Touch", "FingerPressed"),
     OtherEvent("Window", "RedrawRequested"), OtherEvent("Window", "Resized"),
     OtherEvent("InputMethod", "Opened")}
\* the events delivered to a table without on_action, with the cursor over
\* a cell
DisabledEvents ==
    {MouseEvent("ButtonPressed", "Left"), MouseEvent("CursorMoved", "None"),
     KeyPressed("Delete", NoModifiers, FALSE), OtherEvent("Touch", "FingerPressed"),
     OtherEvent("Window", "RedrawRequested")}
DisabledCursor == Some(Point(FAdd(Bounds.x, Fl(50)), FAdd(Bounds.y, Fl(10))))

Data ==
    [cells |-> cells, selection |-> selection, col_widths |-> col_widths,
     row_heights |-> row_heights, column_count |-> column_count,
     row_count |-> row_count, is_dirty |-> is_dirty]

NotHandled == [delivered |-> FALSE, on_edit |-> FALSE, click |-> None]

Init ==
    /\ cells = InitialData.cells
    /\ selection = InitialData.selection
    /\ col_widths = InitialData.col_widths
    /\ row_heights = InitialData.row_heights
    /\ column_count = InitialData.column_count
    /\ row_count = InitialData.row_count
    /\ is_dirty = InitialData.is_dirty
    /\ spacing \in {Size(Fl(s), Fl(s)) : s \in Spacings}
    /\ state = from_data(InitialData, spacing)
    /\ layout_valid = FALSE
    /\ messages = <<>>
    /\ handled = NotHandled
    /\ button_down = FALSE
    /\ drags = 0
    /\ op = NoOp
    /\ NameIdle
    /\ RangeIdle
    /\ StoreIdle
    /\ FindIdle
    /\ KeyIdle

\* the update is a resize drag: the region's raw sizes change
IsResizeDrag(out) ==
    /\ out.update = "Drag"
    /\ state.last_click # None
    /\ state.interaction.interaction = "ResizeDivider"

\* the runtime has laid the widget out and the host has handled the
\* messages published so far
Ready == layout_valid /\ Len(messages) = 0

\* Table::update for one event
Deliver(table, event, cursor, quick, bound) ==
    /\ \E out \in update(table, spacing, Data, state, event, cursor, Bounds, quick, bound) :
        /\ IF IsResizeDrag(out) THEN drags < MaxDrags ELSE TRUE
        /\ state' = out.state
        /\ cells' = out.data.cells
        /\ selection' = out.data.selection
        /\ col_widths' = out.data.col_widths
        /\ row_heights' = out.data.row_heights
        /\ column_count' = out.data.column_count
        /\ row_count' = out.data.row_count
        /\ is_dirty' = out.data.is_dirty
        /\ messages' = messages \o out.published
        /\ handled' = [delivered |-> TRUE, on_edit |-> table.on_edit, click |-> out.click]
        /\ layout_valid' = ~out.layout_invalid
        /\ drags' = IF IsResizeDrag(out) THEN drags + 1 ELSE drags
    /\ UNCHANGED <<op, spacing>>
    /\ UNCHANGED <<nameVars, rangeVars, store_op, find_op, key_op>>

\* quick: the press comes at most 300 ms after the last click; the left
\* button is pressed when it is up and released when it is down
ButtonPressed(button) ==
    /\ Ready
    /\ IF button = "Left" THEN ~button_down /\ button_down' = TRUE
       ELSE button_down' = button_down
    /\ \E table \in IF button = "Left" THEN PressTables ELSE MouseTables,
          cursor \in Cursors,
          quick \in IF button = "Left" /\ state.last_click # None THEN BOOLEAN ELSE {FALSE} :
            Deliver(table, MouseEvent("ButtonPressed", button), cursor, quick, None)

ButtonReleased ==
    /\ Ready
    /\ button_down
    /\ button_down' = FALSE
    /\ \E table \in MouseTables, cursor \in Cursors :
            Deliver(table, MouseEvent("ButtonReleased", "Left"), cursor, FALSE, None)

CursorMoved ==
    /\ Ready
    /\ UNCHANGED button_down
    /\ \E table \in MouseTables, cursor \in Cursors :
            Deliver(table, MouseEvent("CursorMoved", "None"), cursor, FALSE, None)

\* a key press with the default bindings
KeyPress ==
    /\ Ready
    /\ UNCHANGED button_down
    /\ \E table \in KeyTables(FALSE), event \in KeyPresses :
            Deliver(table, event, None, FALSE, None)

\* a key press that the registered key_binding closure maps to bound
KeyPressBound ==
    /\ Ready
    /\ UNCHANGED button_down
    /\ \E table \in KeyTables(TRUE), bound \in BindingResults :
            Deliver(table, KeyPressed("Enter", NoModifiers, FALSE), None, FALSE, bound)

\* an event that update hands to the cells at most
Other ==
    /\ Ready
    /\ UNCHANGED button_down
    /\ \E table \in MouseTables, event \in OtherEvents :
            Deliver(table, event, None, FALSE, None)

\* an event for a table that has no on_action
Disabled ==
    /\ Ready
    /\ UNCHANGED button_down
    /\ \E table \in DisabledTables, event \in DisabledEvents :
            Deliver(table, event, DisabledCursor, TRUE, Some(Binding("SelectAll", "None")))

\* Widget::layout
Layout ==
    /\ ~layout_valid
    /\ state' = [state EXCEPT !.region =
                    scale_to_bounds(@, Size(Bounds.width, Bounds.height), spacing)]
    /\ layout_valid' = TRUE
    /\ UNCHANGED handled
    /\ UNCHANGED <<cells, selection, col_widths, row_heights, column_count, row_count,
                   is_dirty, spacing, messages, drags, op, button_down>>
    /\ UNCHANGED <<nameVars, rangeVars, store_op, find_op, key_op>>

\* the sizes the host lets its columns and rows grow to
WithinMaxTotalSize(data) ==
    FLe(FAdd(SumF(data.col_widths), SumF(data.row_heights)), Fl(MaxTotalSize))

\* Message::Action(action) => self.cells.perform(action)
HostPerform ==
    /\ Len(messages) > 0
    /\ Head(messages).message = "Action"
    /\ WithinMaxTotalSize(perform(Data, Head(messages).action))
    /\ cells' = perform(Data, Head(messages).action).cells
    /\ selection' = perform(Data, Head(messages).action).selection
    /\ col_widths' = perform(Data, Head(messages).action).col_widths
    /\ row_heights' = perform(Data, Head(messages).action).row_heights
    /\ messages' = Tail(messages)
    /\ UNCHANGED handled
    /\ UNCHANGED <<column_count, row_count, is_dirty, spacing, state, layout_valid,
                   drags, op, button_down>>
    /\ UNCHANGED <<nameVars, rangeVars, store_op, find_op, key_op>>

\* any other handling of a message leaves the store as it is
HostIgnore ==
    /\ Len(messages) > 0
    /\ messages' = Tail(messages)
    /\ UNCHANGED handled
    /\ UNCHANGED <<cells, selection, col_widths, row_heights, column_count, row_count,
                   is_dirty, spacing, state, layout_valid, drags, op, button_down>>
    /\ UNCHANGED <<nameVars, rangeVars, store_op, find_op, key_op>>

Next ==
    \/ \E button \in {"Left", "Right"} : ButtonPressed(button)
    \/ ButtonReleased
    \/ CursorMoved
    \/ KeyPress
    \/ KeyPressBound
    \/ Other
    \/ Disabled
    \/ Layout
    \/ HostPerform
    \/ HostIgnore

Spec == Init /\ [][Next]_vars

-----------------------------------------------------------------------------
(* The Content store as a state machine: a host builds a store, inserts     *)
(* cells into it, selects a range and performs an action on it.             *)

\* the ranges the store is built with
StoreRanges == {Range(Address(0, 0), None), TableRange,
                Range(Address(1, 2), Some(Address(0, 0)))}
\* the sizes given to with_column_widths and with_row_heights
SizeInputs == {<<>>, <<Fl(50)>>, <<Fl(50), Fl(50), Fl(50)>>}
\* the cells inserted and the item put into them
InsertCells == {Address(x, y) : x \in {0, MaxInsertCoord}, y \in {0, MaxInsertCoord}}
Item == "a"
\* the ranges selected: one cell, a range with its end before its start,
\* and ranges that reach past the table
StoreSelections ==
    {Range(Address(0, 0), None),
     Range(Address(1, 1), Some(Address(0, 0))),
     Range(Address(0, 2), Some(Address(MaxCoord, 0))),
     Range(Address(MaxCoord, MaxCoord), Some(Address(2, 1))),
     Range(Address(MaxCoord, MaxCoord), None)}
\* the resizes performed
ResizeIndices == {0, 1, MaxCoord}
ResizeSizes == {Fl(0 - 150), Fl(0 - 30), Fl(30)}

Building == {"init", "with_column_widths", "with_row_heights"}

StoreOp(name) == [NoStoreOp EXCEPT !.name = name, !.before = Data,
                                   !.inserts = store_op.inserts]
StoreBecomes(data) ==
    /\ cells' = data.cells
    /\ selection' = data.selection
    /\ col_widths' = data.col_widths
    /\ row_heights' = data.row_heights
    /\ column_count' = data.column_count
    /\ row_count' = data.row_count
    /\ is_dirty' = data.is_dirty
    /\ UNCHANGED <<op, spacing, state, layout_valid, drags, messages, handled,
                   button_down>>
    /\ UNCHANGED <<nameVars, rangeVars, find_op, key_op>>

\* Content::default() or Content::with_range(range)
InitStore ==
    /\ \E data \in {from_range(DefaultRange)} \cup {with_range(r) : r \in StoreRanges} :
          /\ cells = data.cells
          /\ selection = data.selection
          /\ col_widths = data.col_widths
          /\ row_heights = data.row_heights
          /\ column_count = data.column_count
          /\ row_count = data.row_count
          /\ is_dirty = data.is_dirty
    /\ op = NoOp
    /\ spacing = None /\ state = None /\ layout_valid = FALSE /\ drags = 0
    /\ messages = <<>> /\ handled = None /\ button_down = FALSE
    /\ NameIdle
    /\ RangeIdle
    /\ StoreIdle
    /\ FindIdle
    /\ KeyIdle

\* store = store.with_column_widths(sizes)
WithColumnWidths(sizes) ==
    /\ store_op.name \in Building
    /\ StoreBecomes(with_column_widths(Data, sizes))
    /\ store_op' = StoreOp("with_column_widths")

\* store = store.with_row_heights(sizes)
WithRowHeights(sizes) ==
    /\ store_op.name \in Building
    /\ StoreBecomes(with_row_heights(Data, sizes))
    /\ store_op' = StoreOp("with_row_heights")

\* store.insert(cell, item)
Insert(cell) ==
    /\ store_op.name \in Building \cup {"insert"}
    /\ store_op.inserts < MaxInserts
    /\ StoreBecomes(insert(Data, cell, Item))
    /\ store_op' = [StoreOp("insert") EXCEPT !.cell = cell, !.inserts = @ + 1]

\* store.perform(Action::Select(range))
PerformSelect(r) ==
    /\ store_op.name \in Building \cup {"insert"}
    /\ StoreBecomes(perform(Data, ActionSelect(r)))
    /\ store_op' = StoreOp("select")

\* store.perform(Action::Edit(Edit::Delete))
PerformDelete ==
    /\ store_op.name = "select"
    /\ StoreBecomes(perform(Data, ActionEdit("Delete")))
    /\ store_op' = StoreOp("delete")

\* store.perform(Action::ResizeDivider(axis, index, size))
PerformResize(axis, index, size) ==
    /\ store_op.name = "select"
    /\ StoreBecomes(perform(Data, ActionResizeDivider(axis, index, size)))
    /\ store_op' = [StoreOp("resize") EXCEPT !.axis = axis, !.index = index,
                                              !.size = size]

NextStore ==
    \/ \E sizes \in SizeInputs : WithColumnWidths(sizes)
    \/ \E sizes \in SizeInputs : WithRowHeights(sizes)
    \/ \E cell \in InsertCells : Insert(cell)
    \/ \E r \in StoreSelections : PerformSelect(r)
    \/ PerformDelete
    \/ \E axis \in {"Column", "Row"}, index \in ResizeIndices, size \in ResizeSizes :
          PerformResize(axis, index, size)

SpecStore == InitStore /\ [][NextStore]_vars

-----------------------------------------------------------------------------
(* Region::find_cell as a state machine: a table is laid out over a store   *)
(* whose columns and rows have the sizes 0 and 10, without spacing, and     *)
(* find_cell is called for two points.                                      *)

RECURSIVE SizesUpTo(_)
SizesUpTo(n) ==
    IF n = 0 THEN {<<>>}
    ELSE SizesUpTo(n - 1)
         \cup {Append(q, Fl(v)) : q \in {r \in SizesUpTo(n - 1) : Len(r) = n - 1},
                                  v \in {0, 10}}
\* the column widths and the row heights of the stores
RegionSizes == SizesUpTo(MaxRegionLen) \ {<<>>}
RegionRowSizes == SizesUpTo(MaxRegionLen - 1) \ {<<>>}
\* a store with these sizes
SizedStore(columns, rows) ==
    with_row_heights(
        with_column_widths(
            with_range(Range(Address(0, 0),
                             Some(Address(Len(columns) - 1, Len(rows) - 1)))),
            columns),
        rows)
RegionStores ==
    {from_range(DefaultRange)}
    \cup {SizedStore(columns, rows) : columns \in RegionSizes, rows \in RegionRowSizes}
\* the layout's bounds and the table's spacing
RegionBounds == Size(Fl(30), Fl(30))
NoSpacing == Size(Fl(0), Fl(0))
\* the points asked for: on the boundaries, between them and outside
PointCoords == {0 - 1, 0, 10, 15, 20, 30, 35}
Points == {Point(Fl(x), Fl(y)) : x \in PointCoords, y \in PointCoords}
\* the points on the lines through p along the axes
Line(p) == {Point(Fl(x), p.y) : x \in PointCoords} \cup {Point(p.x, Fl(y)) : y \in PointCoords}

\* Table::new(&store) and its layout
InitRegion ==
    /\ \E data \in RegionStores :
          /\ cells = data.cells
          /\ selection = data.selection
          /\ col_widths = data.col_widths
          /\ row_heights = data.row_heights
          /\ column_count = data.column_count
          /\ row_count = data.row_count
          /\ is_dirty = data.is_dirty
    /\ spacing = NoSpacing
    /\ state = [from_data(Data, spacing) EXCEPT !.region =
                    scale_to_bounds(@, RegionBounds, spacing)]
    /\ layout_valid = TRUE
    /\ op = NoOp
    /\ drags = 0 /\ messages = <<>> /\ handled = None /\ button_down = FALSE
    /\ NameIdle
    /\ RangeIdle
    /\ StoreIdle
    /\ FindIdle
    /\ KeyIdle

\* state.region.find_cell(p1) and state.region.find_cell(p2) for two points
\* on a line along an axis.  find_index is a function: on the axis where the
\* points have the same coordinate the two calls give the same index.
FindCell(p1, p2) ==
    /\ \E r1 \in find_cell(state.region, p1), r2 \in find_cell(state.region, p2) :
          /\ p1.x = p2.x => r1.x = r2.x
          /\ p1.y = p2.y => r1.y = r2.y
          /\ find_op' = [name |-> "find_cell", p1 |-> p1, p2 |-> p2,
                         r1 |-> r1, r2 |-> r2]
    /\ UNCHANGED <<selVars, nameVars, widgetVars, rangeVars, store_op, key_op>>

\* one pair of calls in a run
NextRegion ==
    /\ find_op.name = "init"
    /\ \E p1 \in Points : \E p2 \in Line(p1) : FindCell(p1, p2)

SpecRegion == InitRegion /\ [][NextRegion]_vars

-----------------------------------------------------------------------------
(* The Region as a state machine: a table over a store whose size lists    *)
(* may be longer or shorter than its counts is laid out, and then laid out  *)
(* again, asked for the divider at a point, or has a divider dragged.       *)

\* the number of columns of a store given these widths: as many, or MaxRegionLen - 1
LayoutCounts(columns) == {Len(columns), MaxRegionLen - 1}
LayoutRows == {<<Fl(10)>>, <<Fl(10), Fl(10)>>}
LayoutStores ==
    {with_row_heights(
        with_column_widths(
            with_range(Range(Address(0, 0), Some(Address(n - 1, Len(rows) - 1)))),
            columns),
        rows) : columns \in RegionSizes, n \in 1..MaxRegionLen, rows \in LayoutRows}
\* with_spacing((s, s))
LayoutSpacings == {0, 4, 12}
\* the sizes the layout resolves to
LayoutBounds == {Size(Fl(16), Fl(16)), Size(Fl(30), Fl(30))}
\* the points asked for and dragged to
DividerCoords == {0 - 5, 0 - 1, 0, 3, 8, 13, 16, 21}
DividerPoints == {Point(Fl(x), Fl(y)) : x \in DividerCoords, y \in {3, 8}}
DragEnds(start) ==
    {Point(Fl(x), start.y) : x \in DividerCoords}
    \cup {Point(start.x, Fl(y)) : y \in DividerCoords}
\* layout.bounds() of a table laid out at the origin
BoundsAt(size) == [x |-> Fl(0), y |-> Fl(0), width |-> size.width, height |-> size.height]

RegionOp(name, bounds, pos) ==
    [name |-> name, bounds |-> bounds, before |-> state.region, p1 |-> pos, p2 |-> None,
     r1 |-> None]

\* Table::new(&store).spacing(s)
InitLayout ==
    /\ \E data \in LayoutStores :
          /\ data.column_count \in LayoutCounts(data.col_widths)
          /\ cells = data.cells
          /\ selection = data.selection
          /\ col_widths = data.col_widths
          /\ row_heights = data.row_heights
          /\ column_count = data.column_count
          /\ row_count = data.row_count
          /\ is_dirty = data.is_dirty
    /\ spacing \in {Size(Fl(s), Fl(s)) : s \in LayoutSpacings}
    /\ state = from_data(Data, spacing)
    /\ layout_valid = FALSE
    /\ op = NoOp
    /\ drags = 0 /\ messages = <<>> /\ handled = None /\ button_down = FALSE
    /\ NameIdle
    /\ RangeIdle
    /\ StoreIdle
    /\ FindIdle
    /\ KeyIdle

LayoutUnchanged ==
    UNCHANGED <<cells, selection, col_widths, row_heights, column_count, row_count,
                is_dirty, op, spacing, drags, messages, handled, button_down,
                nameVars, rangeVars, store_op, key_op>>

\* Table::layout: state.region.scale_to_bounds(size, self.spacing)
ScaleToBounds(size) ==
    /\ find_op.name = "init"
    /\ state' = [state EXCEPT !.region = scale_to_bounds(@, size, spacing)]
    /\ layout_valid' = TRUE
    /\ find_op' = RegionOp("scale_to_bounds", size, None)
    /\ LayoutUnchanged

\* the same layout once more
Rescale ==
    /\ find_op.name = "scale_to_bounds"
    /\ state' = [state EXCEPT !.region = scale_to_bounds(@, find_op.bounds, spacing)]
    /\ find_op' = RegionOp("rescale", find_op.bounds, None)
    /\ UNCHANGED layout_valid
    /\ LayoutUnchanged

\* state.region.find_nearest_divider(pos)
FindNearestDivider(pos) ==
    /\ find_op.name = "scale_to_bounds"
    /\ \E hit \in find_nearest_divider(state.region, pos) :
          find_op' = [RegionOp("find_nearest_divider", find_op.bounds, Some(pos))
                         EXCEPT !.r1 = hit]
    /\ UNCHANGED <<state, layout_valid>>
    /\ LayoutUnchanged

\* a press on a divider at start and a cursor move to end: Update::Drag
\* while Interaction::ResizeDivider(hit)
DragDivider(start, end) ==
    /\ find_op.name = "scale_to_bounds"
    /\ \E hit \in find_nearest_divider(state.region, start) :
          /\ hit # None
          /\ state' = drag_resize(Context(state, Data), hit[1], start, end,
                                  BoundsAt(find_op.bounds), spacing).state
          /\ find_op' = [RegionOp("drag", find_op.bounds, Some(start))
                             EXCEPT !.p2 = Some(end), !.r1 = hit]
    /\ layout_valid' = FALSE
    /\ LayoutUnchanged

NextLayout ==
    \/ \E size \in LayoutBounds : ScaleToBounds(size)
    \/ Rescale
    \/ \E pos \in DividerPoints : FindNearestDivider(pos)
    \/ \E start \in DividerPoints : \E end \in DragEnds(start) : DragDivider(start, end)

SpecLayout == InitLayout /\ [][NextLayout]_vars

-----------------------------------------------------------------------------
(* The default key bindings as a state machine: a key press of any status, *)
(* key, modifiers and platform, and the binding from_key_press gives it.   *)

\* Status (src/tabular.rs)
Statuses == {"Focused", "Unfocused", "Disabled"}
\* the keys pressed: the named keys and some characters
CharacterKeys == {"c", "x", "v", "a", "q"}
PressedKeys == NamedKeys \cup CharacterKeys
AllModifiers ==
    {Modifiers(shift, control, alt, logo) :
        shift \in BOOLEAN, control \in BOOLEAN, alt \in BOOLEAN, logo \in BOOLEAN}
DefaultKeyPresses ==
    [key : PressedKeys, modifiers : AllModifiers, macos : BOOLEAN, status : Statuses]

InitKeys ==
    /\ key_op \in [name : {"init"}, key_press : DefaultKeyPresses, binding : {None}]
    /\ SelIdle
    /\ NameIdle
    /\ WidgetIdle
    /\ RangeIdle
    /\ StoreIdle
    /\ FindIdle

\* Binding::from_key_press(key_press)
FromKeyPress ==
    /\ key_op.name = "init"
    /\ key_op' = [key_op EXCEPT !.name = "from_key_press",
                                !.binding = from_key_press(key_op.key_press)]
    /\ UNCHANGED <<selVars, nameVars, widgetVars, rangeVars, store_op, find_op>>

NextKeys == FromKeyPress

SpecKeys == InitKeys /\ [][NextKeys]_vars

-----------------------------------------------------------------------------
(* Claims about Table::update (checked under Spec) *)

\* C1: a table without on_action publishes neither an Action nor an
\* Instruction: after Table::update was delivered to a table that has no
\* on_action callback, whatever the event, the widget state and the other
\* callbacks, no message is in the host's queue.
C1_DisabledPublishesNothing ==
    (handled.delivered /\ ~handled.on_edit) => messages = <<>>

C1_Witness ==
    /\ handled.delivered /\ ~handled.on_edit
    /\ state.is_focused /\ state.last_click # None
    /\ messages = <<>>

\* a left press on the table
LeftPress == MouseEvent("ButtonPressed", "Left")
\* the tables that have both on_action and on_instruction
BothCallbacks == {table \in PressTables : table.on_instruction}

\* C2: with on_action and on_instruction registered, every left press that
\* is classified as a double click (so one that follows an earlier click)
\* and falls on a cell the selection does not contain publishes
\* Select(that cell as a range) and then Activate(that cell), and nothing
\* else.
C2_DoubleClickSelectsThenActivates ==
    (Ready /\ state.last_click # None) =>
        \A table \in BothCallbacks, cursor \in Cursors :
            \A out \in update(table, spacing, Data, state, LeftPress, cursor, Bounds,
                              TRUE, None) :
                (/\ out.click # None
                 /\ out.click[1].kind = "Double"
                 /\ ~contains(selection, out.cell[1])) =>
                    out.published = <<on_edit(ActionSelect(as_range(out.cell[1]))),
                                      on_instruction(Activate(out.cell[1]))>>

C2_Witness ==
    /\ handled.click # None
    /\ handled.click[1].kind = "Double"
    /\ ~contains(selection, Address(1, 1))
    /\ messages = <<on_edit(ActionSelect(as_range(Address(1, 1)))),
                    on_instruction(Activate(Address(1, 1)))>>

\* the host's storage
hostStorage == <<selection, cells, col_widths, row_heights>>

-----------------------------------------------------------------------------
(* Claims about the selection algebra (checked under SpecSel) *)

IsCell(c) == ULt(c.x, column_count) /\ ULt(c.y, row_count)
\* the range's start and end (when present) are cells of the table
InTable(r) == IsCell(r.start) /\ (r.end # None => IsCell(r.end[1]))
\* saturating at 0 for an empty table: 0 <= c <= count - 1
Clamped(c) == /\ ULe(c.x, MaxIndex(column_count))
              /\ ULe(c.y, MaxIndex(row_count))
ArrowMotions == {"Left", "Right", "Up", "Down"}

\* C3: after move_selection, for every motion and every prior selection
\* (also one lying outside the table), the selection is a single-cell Range
\* whose cell satisfies 0 <= x <= column_count-1 and 0 <= y <= row_count-1.
C3_MoveIsClampedSingleCell ==
    op.name = "move" => selection.end = None /\ Clamped(selection.start)

\* C4: a MoveSelection or ExpandSelection applied to a selection inside a
\* non-empty table leaves the selection's start and end inside the table.
C4_StaysInTable ==
    (op.name \in {"move", "expand"} /\ InTable(op.before)) => InTable(selection)

\* the cell one step right / left of c, clamped to the table
RightOf(c) == Address(UMin(USatAdd1(c.x), MaxIndex(column_count)),
                      UMin(c.y, MaxIndex(row_count)))
LeftOf(c) == Address(USatSub1(c.x), UMin(c.y, MaxIndex(row_count)))

\* C5: on a single-cell Range, Forward gives what Right gives and Back what
\* Left gives; Forward from (0,0) in a 3x3 table yields (1,0).
C5_TabDegradesOnSingleCell ==
    (op.name = "move" /\ op.before.end = None) =>
        /\ op.motion \in {"Forward", "Right"} =>
               selection = Range(RightOf(op.before.start), None)
        /\ op.motion \in {"Back", "Left"} =>
               selection = Range(LeftOf(op.before.start), None)
        /\ (op.motion = "Forward" /\ column_count = 3 /\ row_count = 3
                /\ op.before.start = Address(0, 0)) =>
               selection = Range(Address(1, 0), None)

C5_Witness ==
    /\ op.name = "move" /\ op.motion = "Forward"
    /\ column_count = 3 /\ row_count = 3
    /\ op.before = Range(Address(0, 0), None)
    /\ selection = Range(Address(1, 0), None)

\* where Forward takes the active cell a inside the rectangle first..last
NextInRectangle(a, first, last) ==
    IF a.x # last.x THEN Address(a.x + 1, a.y)
    ELSE IF a.y # last.y THEN Address(first.x, a.y + 1)
    ELSE first

\* C6: on a multi-cell Range inside the table, Forward moves the active cell
\* (the Range's start) to the next column of the same row of the rectangle,
\* to the rectangle's first column of the next row from its last column, and
\* to the rectangle's first cell from its last cell.
C6_ForwardTraversesRectangle ==
    (op.name = "move" /\ op.motion = "Forward" /\ op.before.end # None
        /\ InTable(op.before)) =>
        LET n == normalize(op.before)
        IN  selection = Range(NextInRectangle(op.before.start, n.start, n.end[1]), None)

C6_Witness ==
    /\ op.name = "move" /\ op.motion = "Forward"
    /\ column_count = 3 /\ row_count = 3
    /\ op.before = Range(Address(1, 1), Some(Address(0, 0)))
    /\ selection = Range(Address(0, 0), None)

\* c moved by one cell along the motion's axis (saturating at 0), then clamped
StepClamped(c, motion) ==
    LET x == CASE motion = "Left" -> USatSub1(c.x)
               [] motion = "Right" -> USatAdd1(c.x)
               [] OTHER -> c.x
        y == CASE motion = "Up" -> USatSub1(c.y)
               [] motion = "Down" -> USatAdd1(c.y)
               [] OTHER -> c.y
    IN  Address(UMin(x, MaxIndex(column_count)), UMin(y, MaxIndex(row_count)))

\* C7: for Left, Right, Up and Down, expand_selection keeps the start and
\* sets the end to the previous end (the start when there was none) moved by
\* one cell along the matching axis, clamped to the table.
C7_ExpandMovesEndByOne ==
    (op.name = "expand" /\ op.motion \in ArrowMotions) =>
        /\ selection.start = op.before.start
        /\ selection.end =
               Some(StepClamped(UnwrapOr(op.before.end, op.before.start), op.motion))

\* C8: for Home, End, Forward, Back, DocumentStart and DocumentEnd,
\* expand_selection leaves the selection (start and end) as it was.
C8_ExpandOtherMotionsNoOp ==
    (op.name = "expand" /\ op.motion \notin ArrowMotions) => selection = op.before

\* C15: after select_all on a table that has cells the selection runs from
\* (0,0) to (column_count - 1, row_count - 1): its corners, and so every
\* Reference it yields, are cells of the table.
C15_SelectAllWithinTable ==
    (op.name = "select_all" /\ column_count > 0 /\ row_count > 0) =>
        /\ selection.start = Address(0, 0)
        /\ selection.end = Some(Address(column_count - 1, row_count - 1))
        /\ InTable(selection)

\* a coordinate and a coordinate at most one step from it
OneStep(a, b) == b \in {a, USatSub1(a), USatAdd1(a)}

\* C40: after expand_selection, for every table size and every coordinate
\* (also above 32767), the end is a cell of the table (0 for an empty
\* table), and when the previous end was one it is that cell or a
\* neighbour of it along one axis.
C40_ExpandClampsEveryIndex ==
    op.name = "expand" =>
        LET old == UnwrapOr(op.before.end, op.before.start)
        IN  /\ selection.end # None
            /\ Clamped(selection.end[1])
            /\ Clamped(old) =>
                    /\ OneStep(old.x, selection.end[1].x)
                    /\ OneStep(old.y, selection.end[1].y)
                    /\ selection.end[1].x = old.x \/ selection.end[1].y = old.y

-----------------------------------------------------------------------------
(* Claims about Range (checked under SpecRange) *)

\* the corners of r's rectangle and the cells in it
MinX(r) == UMin(r.start.x, UnwrapOr(r.end, r.start).x)
MaxX(r) == UMax(r.start.x, UnwrapOr(r.end, r.start).x)
MinY(r) == UMin(r.start.y, UnwrapOr(r.end, r.start).y)
MaxY(r) == UMax(r.start.y, UnwrapOr(r.end, r.start).y)
InRectangle(r, c) ==
    /\ ULe(MinX(r), c.x) /\ ULe(c.x, MaxX(r))
    /\ ULe(MinY(r), c.y) /\ ULe(c.y, MaxY(r))
Rectangle(r) == {Address(x, y) : x \in MinX(r)..MaxX(r), y \in MinY(r)..MaxY(r)}
Yielded(q) == {q[i] : i \in 1..Len(q)}

\* C12: normalize is idempotent, a normalized Range has an end with
\* start.x <= end.x and start.y <= end.y, and it covers the rectangle of
\* cells that the Range it was made from covers.
C12_NormalizeIdempotentOrdered ==
    rng_op.name = "normalize" =>
        /\ normalize(rng) = rng
        /\ rng.end # None
        /\ ULe(rng.start.x, rng.end[1].x)
        /\ ULe(rng.start.y, rng.end[1].y)
        /\ Rectangle(rng) = Rectangle(rng_op.before)
        /\ Yielded(iter(rng)) = Yielded(iter(rng_op.before))

C12_Witness ==
    /\ rng_op.name = "normalize"
    /\ rng_op.before = Range(Address(MaxCoord, 0), Some(Address(1, 1)))
    /\ rng = Range(Address(1, 0), Some(Address(MaxCoord, 1)))

\* C13: iter yields width x height References, no two of them equal, and
\* contains is true of every one of them.
C13_IterYieldsContainedCells ==
    rng_op.name = "iter" =>
        /\ Len(rng_op.yielded) =
               (MaxX(rng) - MinX(rng) + 1) * (MaxY(rng) - MinY(rng) + 1)
        /\ \A i, j \in 1..Len(rng_op.yielded) :
               i # j => rng_op.yielded[i] # rng_op.yielded[j]
        /\ \A i \in 1..Len(rng_op.yielded) : contains(rng, rng_op.yielded[i])

\* C14: contains(cell) is true exactly when the cell lies in the Range's
\* rectangle, min(start.x, end.x) <= x <= max(start.x, end.x) and the same
\* for y, whatever the order of start and end.
C14_ContainsIsRectangleTest ==
    rng_op.name = "contains" =>
        (rng_op.result <=> InRectangle(rng, rng_op.cell))

-----------------------------------------------------------------------------
(* Claims about the Content store (checked under SpecStore) *)

\* the sizes of an axis of a store, and of the other axis
AxisSizes(data, axis) == IF axis = "Column" THEN data.col_widths ELSE data.row_heights
OtherSizes(data, axis) == IF axis = "Column" THEN data.row_heights ELSE data.col_widths

\* C16: perform(ResizeDivider(axis, index, delta)) sets the size at index on
\* that axis to max(previous size + delta, 0), whatever the sign of delta,
\* and leaves the other sizes, the selection and the cells as they were; an
\* index past the last size changes nothing.
C16_ResizeAddsDeltaFlooredAtZero ==
    store_op.name = "resize" =>
        LET before == AxisSizes(store_op.before, store_op.axis)
            after == AxisSizes(Data, store_op.axis)
        IN  /\ cells = store_op.before.cells
            /\ selection = store_op.before.selection
            /\ OtherSizes(Data, store_op.axis) = OtherSizes(store_op.before, store_op.axis)
            /\ Len(after) = Len(before)
            /\ \A i \in 1..Len(before) :
                   after[i] = IF i = store_op.index + 1
                              THEN FMax(FAdd(before[i], store_op.size), Fl(0))
                              ELSE before[i]

\* C17: in a store built by default or with_range, given sizes by
\* with_column_widths and with_row_heights and filled by inserts, there are
\* as many column sizes as columns and as many row sizes as rows.
C17_SizesMatchCounts ==
    /\ Len(col_widths) = column_count
    /\ Len(row_heights) = row_count

\* C18: perform(Edit::Delete) gives every cell of the table that lies in the
\* selection's rectangle the default value and leaves the other cells, the
\* selection, the numbers of columns and rows and the sizes as they were;
\* a selection reaching past the table is no error.
C18_DeleteResetsSelectedCells ==
    store_op.name = "delete" =>
        LET before == store_op.before
        IN  /\ Len(cells) = Len(before.cells)
            /\ \A x \in 1..Len(before.cells) :
                   /\ Len(cells[x]) = Len(before.cells[x])
                   /\ \A y \in 1..Len(before.cells[x]) :
                          cells[x][y] =
                              IF InRectangle(before.selection, Address(x - 1, y - 1))
                              THEN DefaultCell ELSE before.cells[x][y]
            /\ selection = before.selection
            /\ column_count = before.column_count
            /\ row_count = before.row_count
            /\ col_widths = before.col_widths
            /\ row_heights = before.row_heights

\* a selection with its end before its start: the item in it was reset, the
\* item outside it was kept
C18_Witness ==
    /\ store_op.name = "delete"
    /\ selection = Range(Address(1, 1), Some(Address(0, 0)))
    /\ column_count = MaxInsertCoord + 1 /\ row_count = MaxInsertCoord + 1
    /\ store_op.before.cells[1][1] = Item
    /\ cells[1][1] = DefaultCell
    /\ cells[column_count][row_count] = Item

-----------------------------------------------------------------------------
(* Claims about Region::find_cell (checked under SpecRegion) *)

NonDecreasing(cumulative) ==
    /\ \A i \in 1..Len(cumulative) : ~IsNaN(cumulative[i])
    /\ \A i \in 1..(Len(cumulative) - 1) : FLe(cumulative[i], cumulative[i + 1])
\* the smallest index whose boundary is >= pos, or the last index
FirstBoundary(pos, cumulative) ==
    LET at == {i \in 1..Len(cumulative) : FLe(pos, cumulative[i])}
    IN  IF at = {} THEN Len(cumulative) - 1
        ELSE (CHOOSE i \in at : \A j \in at : i <= j) - 1

\* C19: in a Region whose cumulative arrays are non-decreasing, of two
\* points with the same y the one further right is found in the same column
\* or a later one, and of two points with the same x the lower one is found
\* in the same row or a later one.
C19_FindCellMonotonic ==
    (/\ find_op.name = "find_cell"
     /\ NonDecreasing(state.region.cumulative_x)
     /\ NonDecreasing(state.region.cumulative_y)) =>
        /\ (find_op.p1.y = find_op.p2.y /\ FLe(find_op.p1.x, find_op.p2.x)) =>
               find_op.r1.x <= find_op.r2.x
        /\ (find_op.p1.x = find_op.p2.x /\ FLe(find_op.p1.y, find_op.p2.y)) =>
               find_op.r1.y <= find_op.r2.y

\* a zero-width column: the boundaries 15, 15, 30
C19_Witness ==
    /\ find_op.name = "find_cell"
    /\ state.region.cumulative_x = <<Fl(15), Fl(15), Fl(30)>>
    /\ NonDecreasing(state.region.cumulative_y)
    /\ find_op.p1.y = find_op.p2.y
    /\ find_op.p1.x = Fl(15) /\ find_op.p2.x = Fl(20)
    /\ find_op.r1.x = 1 /\ find_op.r2.x = 2

\* C20: in a table that has cells and non-decreasing cumulative arrays,
\* find_cell returns (column, row), the column being the smallest index
\* whose x boundary is >= the point's x (the last column when there is
\* none), the row likewise, and both are indices of the table.
C20_FindCellFirstBoundary ==
    (/\ find_op.name = "find_cell"
     /\ column_count > 0 /\ row_count > 0
     /\ NonDecreasing(state.region.cumulative_x)
     /\ NonDecreasing(state.region.cumulative_y)) =>
        /\ find_op.r1.x = FirstBoundary(find_op.p1.x, state.region.cumulative_x)
        /\ find_op.r1.y = FirstBoundary(find_op.p1.y, state.region.cumulative_y)
        /\ find_op.r1.x < column_count
        /\ find_op.r1.y < row_count

-----------------------------------------------------------------------------
(* Claims about the Region's dividers and scaling (checked under SpecLayout) *)

\* the dividers of an axis within RESIZE_AREA of pos: divider i is at
\* cumulative[i] - spacing / 2
NearDividers(pos, cumulative, sp) ==
    {i \in 1..Len(cumulative) :
        FLe(FAbs(FSub(pos, FSub(cumulative[i], FDiv(sp, Fl(2))))), Fl(RESIZE_AREA))}
NearColumns == NearDividers(find_op.p1[1].x, state.region.cumulative_x,
                            state.region.spacing.width)
NearRows == NearDividers(find_op.p1[1].y, state.region.cumulative_y,
                         state.region.spacing.height)

\* C21: find_nearest_divider returns none when no divider of either axis is
\* within 4 units of the point, some divider when one is, and a column
\* divider when dividers of both axes are.
C21_NearestDividerWithinTolerance ==
    find_op.name = "find_nearest_divider" =>
        /\ (NearColumns = {} /\ NearRows = {}) => find_op.r1 = None
        /\ (NearColumns # {} \/ NearRows # {}) => find_op.r1 # None
        /\ (NearColumns # {} /\ NearRows # {}) =>
               (find_op.r1 # None /\ find_op.r1[1].axis = "Column")

Rescaled == {"scale_to_bounds", "rescale", "drag"}

\* C22: after scale_to_bounds the scaled column sizes add up to the width
\* and the scaled row sizes to the height it was given, every scaled size
\* is raw / total raw x extent, and the cumulative arrays are the running
\* sums of the scaled sizes and do not decrease.
C22_ScaledSizesFillBounds ==
    find_op.name \in Rescaled =>
        LET region == state.region
        IN  /\ SumF(region.scaled_columns) = find_op.bounds.width
            /\ SumF(region.scaled_rows) = find_op.bounds.height
            /\ \A i \in 1..Len(region.scaled_columns) :
                   /\ i <= Len(region.raw_columns)
                   /\ region.scaled_columns[i] =
                          FMul(FDiv(region.raw_columns[i], SumF(region.raw_columns)),
                               find_op.bounds.width)
                   /\ region.cumulative_x[i] = SumF(SubSeq(region.scaled_columns, 1, i))
            /\ \A i \in 1..Len(region.scaled_rows) :
                   /\ i <= Len(region.raw_rows)
                   /\ region.scaled_rows[i] =
                          FMul(FDiv(region.raw_rows[i], SumF(region.raw_rows)),
                               find_op.bounds.height)
                   /\ region.cumulative_y[i] = SumF(SubSeq(region.scaled_rows, 1, i))
            /\ NonDecreasing(region.cumulative_x)
            /\ NonDecreasing(region.cumulative_y)

\* C23: a second scale_to_bounds with the same bounds and spacing leaves the
\* Region, and so its raw sizes and counts, as the first one left it.
C23_RescaleIdempotent ==
    find_op.name = "rescale" =>
        /\ state.region = find_op.before
        /\ state.region.raw_columns = find_op.before.raw_columns
        /\ state.region.raw_rows = find_op.before.raw_rows
        /\ state.region.column_count = column_count
        /\ state.region.row_count = row_count

C23_Witness ==
    /\ find_op.name = "rescale"
    /\ state.region.cumulative_x = <<Fl(8), Fl(16)>>
    /\ state.region.scaled_columns = <<Fl(8), Fl(8)>>
    /\ state.region = find_op.before

\* the raw sizes of the axis of a divider, and of the other axis
RawOf(region, axis) == IF axis = "Column" THEN region.raw_columns ELSE region.raw_rows
OtherRawOf(region, axis) == IF axis = "Column" THEN region.raw_rows ELSE region.raw_columns
\* the cursor's way from the press at start to current, in raw units
RawMoved(region, axis, start, current) ==
    IF axis = "Column" THEN FDiv(FSub(current.x, start.x), region.scale_factor_x)
    ELSE FDiv(FSub(current.y, start.y), region.scale_factor_y)

\* C30: a cursor move during the resize of a divider sets the raw size of
\* the dragged column or row to its raw size at the press plus the cursor's
\* way in raw units, not below 0, with every spacing (so a move back to the
\* place of the press leaves it as it was), leaves every other raw size as
\* it was, and scales the Region to the same bounds again.
C30_DragSetsRawSize ==
    find_op.name = "drag" =>
        LET hit == find_op.r1[1]
            before == find_op.before
            moved == RawMoved(before, hit.axis, find_op.p1[1], find_op.p2[1])
            raw == RawOf(before, hit.axis)
            dragged == [raw EXCEPT ![hit.index + 1] = FMax(FAdd(@, moved), Fl(0))]
        IN  /\ RawOf(state.region, hit.axis) = dragged
            /\ OtherRawOf(state.region, hit.axis) = OtherRawOf(before, hit.axis)
            /\ find_op.p2 = find_op.p1 =>
                    RawOf(state.region, hit.axis) = RawOf(before, hit.axis)
            /\ state.region =
                    scale_to_bounds([before EXCEPT !.raw_columns = state.region.raw_columns,
                                                   !.raw_rows = state.region.raw_rows],
                                    find_op.bounds, spacing)

-----------------------------------------------------------------------------
(* Claims about presses on the table (C27 checked under SpecLayout, C28 and *)
(* C29 under Spec)                                                         *)

\* the outcomes of a press of a mouse button on a table
PressOutcomes(table, button, cursor, bounds, quick) ==
    update(table, spacing, Data, state, MouseEvent("ButtonPressed", button), cursor,
           bounds, quick, None)
\* the column and row dividers within RESIZE_AREA of a point of the table
ColumnDividersAt(p) ==
    NearDividers(p.x, state.region.cumulative_x, state.region.spacing.width)
RowDividersAt(p) ==
    NearDividers(p.y, state.region.cumulative_y, state.region.spacing.height)
OnDivider(p) == ColumnDividersAt(p) # {} \/ RowDividersAt(p) # {}
IsSingle(out) == out.click # None /\ out.click[1].kind = "Single"

\* C27: on a table that has been laid out, a single left press inside the
\* bounds and within RESIZE_AREA of a divider starts the resize of that
\* divider (the column divider when one is near, the row divider
\* otherwise), focuses the table, publishes nothing and is not handed to
\* the cells, with and without passthrough and whatever the selection is.
C27_PressOnDividerStartsResize ==
    find_op.name = "scale_to_bounds" =>
        \A table \in PressTables, pos \in DividerPoints :
            \A out \in PressOutcomes(table, "Left", Some(pos), BoundsAt(find_op.bounds),
                                     FALSE) :
                (/\ IsSingle(out)
                 /\ OnDivider(out.click[1].position)) =>
                    /\ out.state.interaction.interaction = "ResizeDivider"
                    /\ LET hit == out.state.interaction.hit
                           at == out.click[1].position
                       IN  IF ColumnDividersAt(at) # {}
                           THEN hit.axis = "Column" /\ hit.index + 1 \in ColumnDividersAt(at)
                           ELSE hit.axis = "Row" /\ hit.index + 1 \in RowDividersAt(at)
                    /\ out.state.is_focused
                    /\ out.published = <<>>
                    /\ ~out.forwarded

\* C28: a single left press inside the bounds and on no divider publishes
\* Select(the cell under the cursor, as a range) and focuses the table
\* exactly when the selection's rectangle does not hold the cell, publishes
\* nothing and leaves the focus when it does, and is handed to the cells
\* exactly when passthrough is on.
C28_PressOnCellSelects ==
    Ready =>
        \A table \in PressTables, cursor \in Cursors, quick \in BOOLEAN :
            \A out \in PressOutcomes(table, "Left", cursor, Bounds, quick) :
                (/\ IsSingle(out)
                 /\ ~OnDivider(out.click[1].position)) =>
                    /\ \E cell \in find_cell(state.region, out.click[1].position) :
                          IF InRectangle(selection, cell)
                          THEN /\ out.published = <<>>
                               /\ out.state.is_focused = state.is_focused
                          ELSE /\ out.published = <<on_edit(ActionSelect(as_range(cell)))>>
                               /\ out.state.is_focused
                    /\ out.forwarded = table.passthrough

\* C29: a press of a mouse button outside the bounds of a table with
\* on_action, in every state (also during the resize of a divider), leaves
\* the table unfocused, with no interaction and with last_click and
\* drag_click cleared, publishes nothing and is not handed to the cells.
C29_PressOutsideUnfocuses ==
    \A table \in PressTables, button \in {"Left", "Right"}, cursor \in Cursors,
       quick \in BOOLEAN :
        position_in(cursor, Bounds) = None =>
            \A out \in PressOutcomes(table, button, cursor, Bounds, quick) :
                /\ ~out.state.is_focused
                /\ out.state.interaction = InteractionNone
                /\ out.state.last_click = None
                /\ out.state.drag_click = None
                /\ out.published = <<>>
                /\ ~out.forwarded

\* a press of the right button outside the bounds while the left button
\* was held after the drag of a divider
C29_Witness ==
    /\ button_down
    /\ drags > 0
    /\ handled.delivered /\ handled.click = None
    /\ ~state.is_focused
    /\ state.interaction = InteractionNone
    /\ state.last_click = None /\ state.drag_click = None

-----------------------------------------------------------------------------
(* Claims about releases, cursor moves and redraws (checked under Spec) *)

LeftRelease == MouseEvent("ButtonReleased", "Left")
\* the outcomes of a release of the left button
ReleaseOutcomes(table, cursor) ==
    update(table, spacing, Data, state, LeftRelease, cursor, Bounds, FALSE, None)
Resizing == state.interaction.interaction = "ResizeDivider"
\* the cursor's place relative to the table, inside its bounds or not
Relative(cursor) == Point(FSub(cursor[1].x, Bounds.x), FSub(cursor[1].y, Bounds.y))

\* C31: a release of the left button during the resize of a divider, with
\* the cursor anywhere, publishes one ResizeDivider with the axis and the
\* index of the divider that was pressed (and, where the cursor has a
\* position, the cursor's way from the press in raw units), and leaves the
\* table with no interaction and drag_click cleared.
C31_ReleasePublishesResize ==
    (Ready /\ Resizing) =>
        \A table \in MouseTables, cursor \in Cursors :
            \A out \in ReleaseOutcomes(table, cursor) :
                /\ Len(out.published) = 1
                /\ out.published[1].message = "Action"
                /\ out.published[1].action.action = "ResizeDivider"
                /\ out.published[1].action.axis = state.interaction.hit.axis
                /\ out.published[1].action.index = state.interaction.hit.index
                /\ (cursor # None /\ state.last_click # None) =>
                        out.published[1].action.size =
                            RawMoved(state.region, state.interaction.hit.axis,
                                     state.last_click[1].position, Relative(cursor))
                /\ out.state.interaction = InteractionNone
                /\ out.state.drag_click = None

\* the outcomes of a cursor move
MoveOutcomes(table, cursor) ==
    update(table, spacing, Data, state, MouseEvent("CursorMoved", "None"), cursor, Bounds,
           FALSE, None)

\* C32: a release of the left button while no divider is resized publishes
\* nothing and clears drag_click; drag_click stays cleared while the button
\* is up and is set only by a single press, and while it is cleared no
\* cursor move publishes anything or changes the Region.
C32_ReleaseEndsDrag ==
    Ready =>
        /\ ~Resizing =>
                \A table \in MouseTables, cursor \in Cursors :
                    \A out \in ReleaseOutcomes(table, cursor) :
                        out.published = <<>> /\ out.state.drag_click = None
        /\ ~button_down => state.drag_click = None
        /\ state.drag_click # None =>
                /\ state.last_click # None
                /\ state.last_click[1].kind = "Single"
                /\ state.drag_click = Some("Single")
        /\ state.drag_click = None =>
                \A table \in MouseTables, cursor \in Cursors :
                    \A out \in MoveOutcomes(table, cursor) :
                        out.published = <<>> /\ out.state.region = state.region

\* the button is up after a click on a cell and no divider was dragged
C32_Witness ==
    /\ Ready
    /\ ~button_down
    /\ handled.delivered /\ handled.click = None
    /\ state.last_click # None
    /\ state.drag_click = None
    /\ ~Resizing
    /\ drags = 0

\* the Range of the rectangle between two cells, start before end
Between(a, b) ==
    Range(Address(UMin(a.x, b.x), UMin(a.y, b.y)), Some(Address(UMax(a.x, b.x), UMax(a.y, b.y))))
\* a single click is held and no divider is resized
Selecting ==
    /\ state.drag_click = Some("Single")
    /\ state.last_click # None
    /\ ~Resizing

\* C33: a cursor move inside the bounds while a single click is held and no
\* divider is resized publishes nothing or Select(the Range between the
\* cell under the press and the cell under the cursor), and Select only
\* when that Range is not the host's selection; a host that performs the
\* Select has that Range as its selection, so that the next move over the
\* same cell publishes nothing.
C33_DragSelectsChangedRange ==
    /\ (Ready /\ Selecting) =>
            \A table \in MouseTables, cursor \in Cursors :
                position_in(cursor, Bounds) # None =>
                    \A out \in MoveOutcomes(table, cursor) :
                        \/ out.published = <<>>
                        \/ \E from \in find_cell(state.region, state.last_click[1].position),
                              to \in find_cell(state.region, Relative(cursor)) :
                                /\ out.published = <<on_edit(ActionSelect(Between(from, to)))>>
                                /\ Between(from, to) # selection
    /\ (Len(messages) > 0 /\ Head(messages).message = "Action"
            /\ Head(messages).action.action = "Select") =>
                perform(Data, Head(messages).action).selection = Head(messages).action.range

\* a press on cell (0, 0) and a move to cell (1, 1) have published the
\* Select of the whole table
C33_Witness ==
    /\ Selecting
    /\ handled.delivered /\ handled.click = None
    /\ state.last_click[1].position = Point(Fl(50), Fl(10))
    /\ messages = <<on_edit(ActionSelect(Range(Address(0, 0), Some(Address(1, 1)))))>>

\* a redraw tick of the window
RedrawTick == OtherEvent("Window", "RedrawRequested")
RedrawOutcomes(table) ==
    update(table, spacing, Data, state, RedrawTick, None, Bounds, FALSE, None)

\* C34: a redraw tick for a table with on_action whose data is dirty leaves
\* the data clean and the Region built anew from the host's sizes and
\* counts; when the data is clean the tick changes neither the data nor
\* the State.
C34_RedrawClearsDirty ==
    \A table \in MouseTables :
        \A out \in RedrawOutcomes(table) :
            IF is_dirty
            THEN /\ ~out.data.is_dirty
                 /\ out.state.region = from_data(Data, spacing).region
            ELSE out.data = Data /\ out.state = state

\* the cursor over the place of a click
CursorAt(click) ==
    Some(Point(FAdd(Bounds.x, click.position.x), FAdd(Bounds.y, click.position.y)))
\* the cursor is inside the bounds and near the last click
NearLastClick(cursor) ==
    /\ position_in(cursor, Bounds) # None
    /\ state.last_click # None
    /\ FLt(Distance2(state.last_click[1].position, position_in(cursor, Bounds)[1]), Fl(36))
\* the kinds of the press that follows the release of the click just made,
\* at the same place and in time
NextKinds(table) ==
    {next.click[1].kind :
        next \in UNION {update(table, spacing, Data, released.state, LeftPress,
                               CursorAt(handled.click[1]), Bounds, TRUE, None) :
                            released \in ReleaseOutcomes(table, CursorAt(handled.click[1]))}}

\* C35: a left press inside the bounds is a single click when there is no
\* click before it or when it comes too late or too far from it, a double
\* click when it follows a single click in time and place, and a triple
\* click when it follows a double click in time and place.
C35_ClickKindsEscalate ==
    Ready =>
        /\ \A table \in PressTables, cursor \in Cursors, quick \in BOOLEAN :
                position_in(cursor, Bounds) # None =>
                    \A out \in PressOutcomes(table, "Left", cursor, Bounds, quick) :
                        IF NearLastClick(cursor) /\ quick
                        THEN state.last_click[1].kind = "Single" =>
                                out.click[1].kind = "Double"
                        ELSE out.click[1].kind = "Single"
        /\ (handled.click # None /\ handled.click[1].kind = "Double") =>
                \A table \in PressTables : NextKinds(table) = {"Triple"}

\* C36: a left press that is a double or a triple click is captured by the
\* table and is not handed to the cells, with and without passthrough.
C36_DoubleClickConsumed ==
    Ready =>
        \A table \in PressTables, cursor \in Cursors :
            \A out \in PressOutcomes(table, "Left", cursor, Bounds, TRUE) :
                (out.click # None /\ out.click[1].kind \in {"Double", "Triple"}) =>
                    out.captured /\ ~out.forwarded

\* no message of a sequence is the Select action
NoSelect(published) ==
    \A i \in 1..Len(published) :
        published[i].message = "Action" => published[i].action.action # "Select"
KeyOutcomes(table, event) ==
    update(table, spacing, Data, state, event, None, Bounds, FALSE, None)

\* C37: while the left button is held after a press that started the resize
\* of a divider, no cursor move and no key press publishes Select, and no
\* cursor move that follows such a key press (Escape among them) does.
C37_NoSelectDuringResize ==
    (Ready /\ Resizing /\ button_down) =>
        /\ \A table \in MouseTables, cursor \in Cursors :
                \A out \in MoveOutcomes(table, cursor) : NoSelect(out.published)
        /\ \A table \in KeyTables(FALSE), event \in KeyPresses :
                \A pressed \in KeyOutcomes(table, event) :
                    /\ NoSelect(pressed.published)
                    /\ \A cursor \in Cursors :
                            \A out \in update(table, spacing, Data, pressed.state,
                                              MouseEvent("CursorMoved", "None"), cursor,
                                              Bounds, FALSE, None) :
                                NoSelect(out.published)

\* the ResizeDivider actions among the messages
Resizes(published) ==
    {i \in 1..Len(published) :
        /\ published[i].message = "Action"
        /\ published[i].action.action = "ResizeDivider"}
\* the dividers of the axis of a hit that are within RESIZE_AREA of a point
DividersAt(axis, p) == IF axis = "Column" THEN ColumnDividersAt(p) ELSE RowDividersAt(p)

\* the step starts the resize of a divider: it is a single left press
\* within RESIZE_AREA of that divider
StartsResize ==
    (~Resizing /\ state'.interaction.interaction = "ResizeDivider") =>
        /\ ~button_down /\ button_down'
        /\ handled'.click # None
        /\ handled'.click[1].kind = "Single"
        /\ state'.last_click = handled'.click
        /\ state'.interaction.hit.index + 1 \in
                DividersAt(state'.interaction.hit.axis, handled'.click[1].position)
\* the resize goes on while the button is held, with the same divider and
\* the same press
KeepsResize ==
    Resizing =>
        /\ button_down
        /\ (state'.interaction.interaction = "ResizeDivider" =>
                /\ state'.interaction = state.interaction
                /\ state'.last_click = state.last_click
                /\ button_down')
\* the step publishes a ResizeDivider: it is the release that ends the
\* resize of that divider
PublishesResize ==
    (Len(messages) = 0 /\ Resizes(messages') # {}) =>
        /\ Resizing
        /\ button_down /\ ~button_down'
        /\ \A i \in Resizes(messages') :
                /\ messages'[i].action.axis = state.interaction.hit.axis
                /\ messages'[i].action.index = state.interaction.hit.index

\* C38: a ResizeDivider action is published only by the release that ends
\* the resize of the divider with its axis and index, a resize that a
\* single left press within RESIZE_AREA of that divider started and that
\* no release has come between; none is published from Interaction::None.
C38_ResizeFollowsDividerPress ==
    [][StartsResize /\ KeepsResize /\ PublishesResize]_vars

\* the release after a press on the divider after column 0 has published
\* its resize
C38_Witness ==
    /\ ~button_down
    /\ ~Resizing
    /\ Len(messages) = 1
    /\ Resizes(messages) = {1}
    /\ messages[1].action.axis = "Column" /\ messages[1].action.index = 0

\* the outcomes of a key press that the key_binding closure maps to bound
BoundOutcomes(table, bound) ==
    update(table, spacing, Data, state, KeyPressed("Enter", NoModifiers, FALSE), None,
           Bounds, FALSE, bound)
\* what a key press may change of the State: the focus, and with it the
\* interaction and the clicks remembered
FocusChange(st) ==
    {st, focus([st EXCEPT !.interaction = InteractionNone]),
     unfocus([st EXCEPT !.interaction = InteractionNone])}

\* C39: while the table is unfocused a key press, whatever Binding the
\* key_binding closure returns for it, publishes nothing but the Custom
\* message (no Action and no Instruction) and changes nothing but the focus.
C39_UnfocusedKeysPublishNothing ==
    (Ready /\ ~state.is_focused) =>
        \A table \in KeyTables(TRUE), binding \in Bindings :
            \A out \in BoundOutcomes(table, Some(binding)) :
                /\ \A i \in 1..Len(out.published) : out.published[i].message = "Custom"
                /\ out.data = Data
                /\ out.state \in FocusChange(state)

-----------------------------------------------------------------------------
(* Claims about the default key bindings (checked under SpecKeys) *)

KeyCalled == key_op.name = "from_key_press"
Pressed == key_op.key_press
Held == key_op.key_press.modifiers
\* the platform's command modifier: Logo on macOS, Control elsewhere
CommandHeld == IF Pressed.macos THEN Held.logo ELSE Held.control
\* the platform's jump modifier: Alt on macOS, Control elsewhere
JumpHeld == IF Pressed.macos THEN Held.alt ELSE Held.control
\* the line-oriented modifier: Logo on macOS, none elsewhere
LineHeld == Pressed.macos /\ Held.logo
Gives(name, motion) == key_op.binding = <<[binding |-> name, motion |-> motion]>>
GivesNone == key_op.binding = <<>>

\* C24: F2 gives StartEdit when the status is Focused, Focus when it is
\* Unfocused and no binding when it is Disabled.
C24_F2ByStatus ==
    (KeyCalled /\ Pressed.key = "F2") =>
        /\ Pressed.status = "Focused" => Gives("StartEdit", "None")
        /\ Pressed.status = "Unfocused" => Gives("Focus", "None")
        /\ Pressed.status = "Disabled" => GivesNone

\* the keys C25 is about: all but F2 and the motion keys
MotionKeys == {"ArrowLeft", "ArrowRight", "ArrowUp", "ArrowDown", "Home", "End"}
PlainKeys == PressedKeys \ (MotionKeys \cup {"F2"})

\* C25: while Focused, Enter gives Enter, Delete and Backspace give Delete,
\* Escape gives Focus, the command modifier with c, x, v, a gives Copy, Cut,
\* Paste, SelectAll, except that v with Alt gives nothing, and every other
\* key gives nothing; while not Focused these keys give nothing.
C25_FocusedKeyBindings ==
    (KeyCalled /\ Pressed.key \in PlainKeys) =>
        IF Pressed.status # "Focused" THEN GivesNone
        ELSE CASE Pressed.key = "Enter" -> Gives("Enter", "None")
               [] Pressed.key \in {"Delete", "Backspace"} -> Gives("Delete", "None")
               [] Pressed.key = "Escape" -> Gives("Focus", "None")
               [] Pressed.key = "c" /\ CommandHeld -> Gives("Copy", "None")
               [] Pressed.key = "x" /\ CommandHeld -> Gives("Cut", "None")
               [] Pressed.key = "v" /\ CommandHeld /\ ~Held.alt -> Gives("Paste", "None")
               [] Pressed.key = "a" /\ CommandHeld -> Gives("SelectAll", "None")
               [] OTHER -> GivesNone

\* Control+Alt+V on a focused table outside macOS: no Paste
C25_Witness ==
    /\ KeyCalled
    /\ Pressed.status = "Focused" /\ Pressed.key = "v" /\ ~Pressed.macos
    /\ Held.control /\ Held.alt
    /\ GivesNone

BaseMotion ==
    CASE Pressed.key = "ArrowLeft" -> "Left"
      [] Pressed.key = "ArrowRight" -> "Right"
      [] Pressed.key = "ArrowUp" -> "Up"
      [] Pressed.key = "ArrowDown" -> "Down"
      [] Pressed.key = "Home" -> "Home"
      [] Pressed.key = "End" -> "End"
LineMotion ==
    IF LineHeld /\ BaseMotion = "Left" THEN "Home"
    ELSE IF LineHeld /\ BaseMotion = "Right" THEN "End"
    ELSE BaseMotion
JumpMotion ==
    IF JumpHeld /\ LineMotion = "Home" THEN "DocumentStart"
    ELSE IF JumpHeld /\ LineMotion = "End" THEN "DocumentEnd"
    ELSE LineMotion

\* C26: an Arrow, Home or End key on a focused table gives the base motion,
\* with the line-oriented modifier Left becomes Home and Right becomes End,
\* then with the jump modifier Home becomes DocumentStart and End becomes
\* DocumentEnd, as ExpandSelection with Shift and MoveSelection without;
\* widen changes only Home and End and widening twice is widening once.
C26_MotionKeyBindings ==
    /\ (KeyCalled /\ Pressed.key \in MotionKeys /\ Pressed.status = "Focused") =>
            Gives(IF Held.shift THEN "ExpandSelection" ELSE "MoveSelection", JumpMotion)
    /\ \A m \in Motions :
            /\ widen(m) = (IF m = "Home" THEN "DocumentStart"
                           ELSE IF m = "End" THEN "DocumentEnd" ELSE m)
            /\ widen(widen(m)) = widen(m)

\* Logo+Alt+Shift+ArrowLeft on a focused table on macOS: Left, then Home,
\* then DocumentStart
C26_Witness ==
    /\ KeyCalled
    /\ Pressed.status = "Focused" /\ Pressed.key = "ArrowLeft" /\ Pressed.macos
    /\ Held.logo /\ Held.alt /\ Held.shift
    /\ Gives("ExpandSelection", "DocumentStart")

-----------------------------------------------------------------------------
(* Claims about column names (checked under SpecName) *)

\* C10: for every n in 0..18277, from_column_name(to_column_name(n)) is
\* Ok(n); to_column_name gives "A" for 0, "Z" for 25 and "AA" for 26.
C10_ColumnNameRoundTrip ==
    /\ pc = "parsed" => parsed = Ok(col_index)
    /\ (pc # "start" /\ col_index = 0) => col_name = <<65>>
    /\ (pc # "start" /\ col_index = 25) => col_name = <<90>>
    /\ (pc # "start" /\ col_index = 26) => col_name = <<65, 65>>

C10_Witness ==
    /\ pc = "parsed" /\ col_index = 26
    /\ col_name = <<65, 65>> /\ parsed = Ok(26)

\* u32::MAX - 26 * (u32::MAX / 26): the last letters that still fit
U32MaxMod26 == 21
\* the column number (index + 1) the letters of q name in bijective base
\* 26, counted without wrapping: the number itself up to u32::MAX / 26,
\* -1 for a greater one that a u32 holds, -2 past u32::MAX
RECURSIVE NameValue(_)
NameValue(q) ==
    IF Len(q) = 0 THEN 0
    ELSE LET rest == NameValue(SubSeq(q, 1, Len(q) - 1))
             v == ToUpper(q[Len(q)]) - CharA + 1
         IN  IF rest < 0 THEN -2
             ELSE IF rest = U32MaxDiv26 /\ v > U32MaxMod26 THEN -2
             ELSE IF rest > I32MaxDiv26 - 1 THEN -1
             ELSE IF 26 * rest + v > U32MaxDiv26 THEN -1
             ELSE 26 * rest + v
\* the letters of q name a column past u32::MAX
Overflows(q) ==
    /\ \A i \in 1..Len(q) : IsAsciiLetter(q[i])
    /\ NameValue(q) = -2
\* q is empty, has a character that is no ASCII letter, or overflows
IsBadName(q) ==
    \/ Len(q) = 0
    \/ \E i \in 1..Len(q) : ~IsAsciiLetter(q[i])
    \/ Overflows(q)

\* C11: for the empty string, for every string with a character that is
\* not an ASCII letter and for every string whose index overflows,
\* from_column_name returns an Err: it does not return Ok and does not panic.
C11_BadNamesAreErrors ==
    (pc = "parsed_input" /\ IsBadName(col_name)) =>
        (~parsed.ok /\ parsed.err # "panic")

=============================================================================
